---- MODULE Spec2Model ----
(***************************************************************************)
(* The task-rescheduling engine of the study-roadmap planner               *)
(* (src/utils/scheduler.ts) and the handlers that drive it:                *)
(* Planning.handleDateChange, CalendarView.handleDrop and                  *)
(* Dashboard.handleSaveEdit.                                               *)
(*                                                                         *)
(* Representation.                                                         *)
(*  - An optional date field of a task is a record: Undefined (the field   *)
(*    is absent), EmptyStr (the string '') or DateStr(d), the string       *)
(*    YYYY-MM-DD of the calendar day number d (days are counted from a     *)
(*    reference day; d+1 is the next calendar day).                        *)
(*  - An instant (Date.getTime()) is counted in ticks of six hours, so a   *)
(*    day is TicksPerDay ticks.  new Date('YYYY-MM-DD') is UTC midnight of *)
(*    that day, toISOString() is the UTC date of an instant.               *)
(*  - A roadmap is [title, totalTimeEstimate, modules]; a module is        *)
(*    [id, title, tasks]; modules and tasks are sequences.  Task ids are   *)
(*    unique within a roadmap.                                             *)
(*  - call records the latest call of rescheduleRoadmap: its arguments,    *)
(*    the roadmap argument as it is after the call, and the result.        *)
(*  - app, rows, applied, awaiting, events: the App instances, the table,  *)
(*    the updates it took, the requests and the events in flight.          *)
(*                                                                         *)
(* Specifications.                                                         *)
(*  - Spec: one call of the engine, by each handler, on every roadmap the  *)
(*    program can hold.                                                    *)
(*  - SeqSpec: sequences of date edits on a generated roadmap.             *)
(*  - AddSpec, SumSpec: addTime and recalculateTotalTime as functions of   *)
(*    their arguments; call then records the arguments and the results.    *)
(*  - CopySpec: rescheduleRoadmap called with a task record and with a     *)
(*    copy of it.  TwoSpec: two moves of a task against one.               *)
(*  - DropSpec: a calendar drop on the unscheduled area.  EditSpec: the    *)
(*    edit form saved.  DoneSpec: sequences of completion toggles, saved   *)
(*    forms and moves.                                                     *)
(*  - AppSpec, DelSpec: the App component of one browser session with the  *)
(*    roadmaps table behind it.  SyncSpec, EchoSpec: two sessions with the *)
(*    Dashboard open on one project, the table and its real-time events.   *)
(***************************************************************************)
EXTENDS Integers, Sequences, FiniteSets, TLC

VARIABLES roadmap, call, app, rows, applied, awaiting, events

vars == <<roadmap, call, app, rows, applied, awaiting, events>>

\* The App instances (app: one record of the component's state per browser
\* session), the roadmaps table (rows), the updates the table has taken
\* (applied), the requests in flight (awaiting) and the real-time events in
\* flight (events).
appVars == <<app, rows, applied, awaiting, events>>

\* No App instance: a view and the engine on their own.
NoApp ==
    /\ app = <<>>
    /\ rows = <<>>
    /\ applied = <<>>
    /\ awaiting = {}
    /\ events = {}

(***************************************************************************)
(* Bounds of the model.                                                    *)
(***************************************************************************)
\* Calendar days of the model are 0 .. MaxDay.
MaxDay == 1

Days == 0 .. MaxDay

\* Layouts of the generated roadmaps: the number of tasks of each module.
Shapes == { <<2, 1>>, <<1, 0, 1>> }

\* Ids of the tasks, in traversal order, and an id no task has.
TaskIds == <<"t1", "t2", "t3">>

GhostId == "t9"

(***************************************************************************)
(* Values of the optional string fields startDate / endDate.               *)
(***************************************************************************)
Undefined == [kind |-> "undefined"]

EmptyStr == [kind |-> "empty"]

DateStr(d) == [kind |-> "date", day |-> d]

\* An optional property the object does not have at all (for the spread
\* { ...a, ...b }, which copies only the properties b has).
Absent == [kind |-> "absent"]

\* JavaScript truthiness of an optional string: undefined and '' are falsy.
Truthy(s) == s.kind = "date"

(***************************************************************************)
(* Date arithmetic.                                                        *)
(***************************************************************************)
\* One day, 1000 * 60 * 60 * 24 ms, in ticks.
TicksPerDay == 4

\* getTime with the string read as midnight of a zone six hours ahead of
\* UTC (new Date(dateStr + 'T00:00')): the instant is one tick earlier.
getTimeLocalMidnight(dateStr) == dateStr.day * TicksPerDay - 1

\* new Date(dateStr).getTime() for a YYYY-MM-DD string: UTC midnight.
getTime(dateStr) == dateStr.day * TicksPerDay

\* toISODate with the date taken in a zone six hours behind UTC
\* (getFullYear / getMonth / getDate of the local time).
toISODateLocal(t) == DateStr((t - 1) \div TicksPerDay)

\* toISODate with the instant truncated towards the epoch (Math.trunc of
\* the day count): wrong for instants before it.
toISODateTrunc(t) ==
    DateStr(IF t >= 0 THEN t \div TicksPerDay ELSE -((-t) \div TicksPerDay))

\* new Date(t).toISOString().split('T')[0]: the UTC calendar date of instant t.
toISODate(t) == DateStr(t \div TicksPerDay)

addTime(dateStr, diffMs) ==
    IF ~Truthy(dateStr) THEN EmptyStr
    ELSE toISODate(getTime(dateStr) + diffMs)

(***************************************************************************)
(* Duration summary.                                                       *)
(***************************************************************************)
\* new Date(8640000000000000) and new Date(-8640000000000000), in ticks.
MaxDateTime == 400000000

MinDateTime == -400000000

\* The tasks of all modules in traversal order (module order, then task order).
RECURSIVE FlattenTasks(_)
FlattenTasks(modules) ==
    IF modules = <<>> THEN <<>>
    ELSE Head(modules).tasks \o FlattenTasks(Tail(modules))

\* ScanTask with hasDates set by an endDate as well as by a startDate.
ScanTaskEndCounts(acc, task) ==
    LET start == IF Truthy(task.startDate) THEN getTime(task.startDate) ELSE 0
        min1 == IF Truthy(task.startDate) /\ start < acc.minDate
                THEN start ELSE acc.minDate
        has1 == acc.hasDates \/ Truthy(task.startDate) \/ Truthy(task.endDate)
        max1 == IF Truthy(task.endDate)
                THEN (IF getTime(task.endDate) > acc.maxDate
                      THEN getTime(task.endDate) ELSE acc.maxDate)
                ELSE IF Truthy(task.startDate) /\ start > acc.maxDate
                     THEN start ELSE acc.maxDate
    IN [minDate |-> min1, maxDate |-> max1, hasDates |-> has1]

\* ScanTask with maxDate assigned from every endDate, without the
\* comparison: the last endDate seen wins.
ScanTaskLastEnd(acc, task) ==
    LET start == IF Truthy(task.startDate) THEN getTime(task.startDate) ELSE 0
        min1 == IF Truthy(task.startDate) /\ start < acc.minDate
                THEN start ELSE acc.minDate
        has1 == acc.hasDates \/ Truthy(task.startDate)
        max1 == IF Truthy(task.endDate)
                THEN getTime(task.endDate)
                ELSE IF Truthy(task.startDate) /\ start > acc.maxDate
                     THEN start ELSE acc.maxDate
    IN [minDate |-> min1, maxDate |-> max1, hasDates |-> has1]

\* One step of the forEach body: acc = [minDate, maxDate, hasDates].
ScanTask(acc, task) ==
    LET start == IF Truthy(task.startDate) THEN getTime(task.startDate) ELSE 0
        min1 == IF Truthy(task.startDate) /\ start < acc.minDate
                THEN start ELSE acc.minDate
        has1 == acc.hasDates \/ Truthy(task.startDate)
        max1 == IF Truthy(task.endDate)
                THEN (IF getTime(task.endDate) > acc.maxDate
                      THEN getTime(task.endDate) ELSE acc.maxDate)
                ELSE IF Truthy(task.startDate) /\ start > acc.maxDate
                     THEN start ELSE acc.maxDate
    IN [minDate |-> min1, maxDate |-> max1, hasDates |-> has1]

RECURSIVE ScanTasks(_, _)
ScanTasks(acc, tasks) ==
    IF tasks = <<>> THEN acc
    ELSE ScanTasks(ScanTask(acc, Head(tasks)), Tail(tasks))

Abs(x) == IF x < 0 THEN -x ELSE x

\* Math.ceil(a / b) for b > 0.
CeilDiv(a, b) == -((-a) \div b)

\* Math.round(a / b) for b > 0: halves round up.
RoundDiv(a, b) == (2 * a + b) \div (2 * b)

\* recalculateTotalTime without Math.abs: the difference keeps its sign.
recalculateTotalTimeSigned(modules) ==
    LET acc == ScanTasks([minDate |-> MaxDateTime, maxDate |-> MinDateTime,
                          hasDates |-> FALSE], FlattenTasks(modules))
        diffTime == acc.maxDate - acc.minDate
        diffDays == CeilDiv(diffTime, TicksPerDay) + 1
    IN IF ~acc.hasDates THEN "Not scheduled"
       ELSE IF diffDays > 30 THEN ToString(RoundDiv(diffDays, 7)) \o " weeks"
       ELSE ToString(diffDays) \o " days"

\* recalculateTotalTime without the start day added to the difference.
recalculateTotalTimeExclusive(modules) ==
    LET acc == ScanTasks([minDate |-> MaxDateTime, maxDate |-> MinDateTime,
                          hasDates |-> FALSE], FlattenTasks(modules))
        diffTime == Abs(acc.maxDate - acc.minDate)
        diffDays == CeilDiv(diffTime, TicksPerDay)
    IN IF ~acc.hasDates THEN "Not scheduled"
       ELSE IF diffDays > 30 THEN ToString(RoundDiv(diffDays, 7)) \o " weeks"
       ELSE ToString(diffDays) \o " days"

recalculateTotalTime(modules) ==
    LET acc == ScanTasks([minDate |-> MaxDateTime, maxDate |-> MinDateTime,
                          hasDates |-> FALSE], FlattenTasks(modules))
        diffTime == Abs(acc.maxDate - acc.minDate)
        diffDays == CeilDiv(diffTime, TicksPerDay) + 1
    IN IF ~acc.hasDates THEN "Not scheduled"
       ELSE IF diffDays > 30 THEN ToString(RoundDiv(diffDays, 7)) \o " weeks"
       ELSE ToString(diffDays) \o " days"

(***************************************************************************)
(* The reschedule engine.                                                  *)
(***************************************************************************)
\* Array.prototype.find: the first element with the id, or Undefined.
RECURSIVE FindTask(_, _)
FindTask(tasks, id) ==
    IF tasks = <<>> THEN Undefined
    ELSE IF Head(tasks).id = id THEN Head(tasks)
    ELSE FindTask(Tail(tasks), id)

\* originalTask read from the argument: when the roadmap has a task with
\* the id, movedTask itself is taken for it, with the dates the caller's
\* copy carries.
originalTaskFromArgument(rm, movedTask) ==
    IF FindTask(FlattenTasks(rm.modules), movedTask.id) = Undefined
    THEN Undefined
    ELSE movedTask

\* originalModule?.tasks.find(...): the first task with the id in the first
\* module that holds one, which is the first such task in traversal order.
originalTask(rm, movedTask) == FindTask(FlattenTasks(rm.modules), movedTask.id)

\* FastPath without the test for an unchanged date: a move to the date the
\* task already has takes the cascade with a difference of 0.
FastPathWithoutSameDate(rm, movedTask, newStartDate) ==
    LET ot == FindTask(FlattenTasks(rm.modules), movedTask.id)
    IN \/ ot = Undefined
       \/ ~Truthy(ot.startDate)
       \/ ~Truthy(newStartDate)

\* The condition of the early return (line 59).
FastPath(rm, movedTask, newStartDate) ==
    LET ot == originalTask(rm, movedTask)
    IN \/ ot = Undefined
       \/ ~Truthy(ot.startDate)
       \/ ~Truthy(newStartDate)
       \/ ot.startDate = newStartDate

\* FastTask without the id test: the date is written to every task.
FastTaskEveryTask(t, movedTask, newStartDate) ==
    [t EXCEPT !.startDate = newStartDate]

\* The early return: only the startDate of the tasks with the id is set.
FastTask(t, movedTask, newStartDate) ==
    IF t.id = movedTask.id THEN [t EXCEPT !.startDate = newStartDate] ELSE t

\* ShiftTask with the foundMovedTask test left out: every task that has a
\* startDate is shifted, the earlier ones too.
ShiftTaskIgnoringFound(t, found, movedTask, newStartDate, diffMs) ==
    IF t.id = movedTask.id
    THEN [found |-> TRUE,
          task |-> [t EXCEPT !.startDate = newStartDate,
                             !.endDate = IF Truthy(t.endDate)
                                         THEN addTime(t.endDate, diffMs)
                                         ELSE Undefined]]
    ELSE IF Truthy(t.startDate)
    THEN [found |-> found,
          task |-> [t EXCEPT !.startDate = addTime(t.startDate, diffMs),
                             !.endDate = IF Truthy(t.endDate)
                                         THEN addTime(t.endDate, diffMs)
                                         ELSE Undefined]]
    ELSE [found |-> found, task |-> t]

\* ShiftTask that reopens the tasks it reschedules (isCompleted: false).
ShiftTaskReopens(t, found, movedTask, newStartDate, diffMs) ==
    IF t.id = movedTask.id
    THEN [found |-> TRUE,
          task |-> [t EXCEPT !.startDate = newStartDate,
                             !.endDate = IF Truthy(t.endDate)
                                         THEN addTime(t.endDate, diffMs)
                                         ELSE Undefined,
                             !.isCompleted = FALSE]]
    ELSE IF found /\ Truthy(t.startDate)
    THEN [found |-> found,
          task |-> [t EXCEPT !.startDate = addTime(t.startDate, diffMs),
                             !.endDate = IF Truthy(t.endDate)
                                         THEN addTime(t.endDate, diffMs)
                                         ELSE Undefined,
                             !.isCompleted = FALSE]]
    ELSE [found |-> found, task |-> t]

\* ShiftTask with the moved task's endDate left where it was.
ShiftTaskKeepsMovedEnd(t, found, movedTask, newStartDate, diffMs) ==
    IF t.id = movedTask.id
    THEN [found |-> TRUE, task |-> [t EXCEPT !.startDate = newStartDate]]
    ELSE IF found /\ Truthy(t.startDate)
    THEN [found |-> found,
          task |-> [t EXCEPT !.startDate = addTime(t.startDate, diffMs),
                             !.endDate = IF Truthy(t.endDate)
                                         THEN addTime(t.endDate, diffMs)
                                         ELSE Undefined]]
    ELSE [found |-> found, task |-> t]

\* ShiftTask without the second branch: the moved task alone gets new dates
\* and the tasks after it stay where they are.
ShiftTaskMovedOnly(t, found, movedTask, newStartDate, diffMs) ==
    IF t.id = movedTask.id
    THEN [found |-> TRUE,
          task |-> [t EXCEPT !.startDate = newStartDate,
                             !.endDate = IF Truthy(t.endDate)
                                         THEN addTime(t.endDate, diffMs)
                                         ELSE Undefined]]
    ELSE [found |-> found, task |-> t]

\* ShiftTask that moves the startDate of the later tasks and leaves their
\* endDate where it was.
ShiftTaskStartsOnly(t, found, movedTask, newStartDate, diffMs) ==
    IF t.id = movedTask.id
    THEN [found |-> TRUE,
          task |-> [t EXCEPT !.startDate = newStartDate,
                             !.endDate = IF Truthy(t.endDate)
                                         THEN addTime(t.endDate, diffMs)
                                         ELSE Undefined]]
    ELSE IF found /\ Truthy(t.startDate)
    THEN [found |-> found,
          task |-> [t EXCEPT !.startDate = addTime(t.startDate, diffMs)]]
    ELSE [found |-> found, task |-> t]

\* ShiftTask that pushes the later tasks on a forward move only: on a
\* backward move the moved task goes alone.
ShiftTaskForwardOnly(t, found, movedTask, newStartDate, diffMs) ==
    IF t.id = movedTask.id
    THEN [found |-> TRUE,
          task |-> [t EXCEPT !.startDate = newStartDate,
                             !.endDate = IF Truthy(t.endDate)
                                         THEN addTime(t.endDate, diffMs)
                                         ELSE Undefined]]
    ELSE IF found /\ Truthy(t.startDate) /\ diffMs > 0
    THEN [found |-> found,
          task |-> [t EXCEPT !.startDate = addTime(t.startDate, diffMs),
                             !.endDate = IF Truthy(t.endDate)
                                         THEN addTime(t.endDate, diffMs)
                                         ELSE Undefined]]
    ELSE [found |-> found, task |-> t]

\* The body of the inner map of the cascade.  found is foundMovedTask as it
\* is when the task is visited; the result is the new task and the flag.
ShiftTask(t, found, movedTask, newStartDate, diffMs) ==
    IF t.id = movedTask.id
    THEN [found |-> TRUE,
          task |-> [t EXCEPT !.startDate = newStartDate,
                             !.endDate = IF Truthy(t.endDate)
                                         THEN addTime(t.endDate, diffMs)
                                         ELSE Undefined]]
    ELSE IF found /\ Truthy(t.startDate)
    THEN [found |-> found,
          task |-> [t EXCEPT !.startDate = addTime(t.startDate, diffMs),
                             !.endDate = IF Truthy(t.endDate)
                                         THEN addTime(t.endDate, diffMs)
                                         ELSE Undefined]]
    ELSE [found |-> found, task |-> t]

\* mod.tasks.map(...) of the cascade: [found, tasks].
RECURSIVE ShiftTasks(_, _, _, _, _)
ShiftTasks(tasks, found, movedTask, newStartDate, diffMs) ==
    IF tasks = <<>> THEN [found |-> found, tasks |-> <<>>]
    ELSE LET h == ShiftTask(Head(tasks), found, movedTask, newStartDate, diffMs)
             r == ShiftTasks(Tail(tasks), h.found, movedTask, newStartDate, diffMs)
         IN [found |-> r.found, tasks |-> <<h.task>> \o r.tasks]

\* ShiftModules with foundMovedTask declared inside the module callback, so
\* that every module starts with the flag down.
RECURSIVE ShiftModulesFlagPerModule(_, _, _, _, _)
ShiftModulesFlagPerModule(modules, found, movedTask, newStartDate, diffMs) ==
    IF modules = <<>> THEN <<>>
    ELSE LET m == Head(modules)
             r == ShiftTasks(m.tasks, FALSE, movedTask, newStartDate, diffMs)
         IN <<[m EXCEPT !.tasks = r.tasks]>>
            \o ShiftModulesFlagPerModule(Tail(modules), FALSE, movedTask,
                                         newStartDate, diffMs)

\* roadmap.modules.map(...) of the cascade; foundMovedTask is carried from
\* one module to the next.
RECURSIVE ShiftModules(_, _, _, _, _)
ShiftModules(modules, found, movedTask, newStartDate, diffMs) ==
    IF modules = <<>> THEN <<>>
    ELSE LET m == Head(modules)
             r == ShiftTasks(m.tasks, found, movedTask, newStartDate, diffMs)
         IN <<[m EXCEPT !.tasks = r.tasks]>>
            \o ShiftModules(Tail(modules), r.found, movedTask, newStartDate, diffMs)

\* rescheduleRoadmap with the summary of the cascade taken from the input
\* modules (recalculateTotalTime(roadmap.modules)).
rescheduleRoadmapStaleTotal(rm, movedTask, newStartDate) ==
    IF FastPath(rm, movedTask, newStartDate)
    THEN [rm EXCEPT !.modules =
            [i \in DOMAIN rm.modules |->
               [rm.modules[i] EXCEPT !.tasks =
                  [j \in DOMAIN rm.modules[i].tasks |->
                     FastTask(rm.modules[i].tasks[j], movedTask, newStartDate)]]]]
    ELSE LET diffMs == getTime(newStartDate)
                         - getTime(originalTask(rm, movedTask).startDate)
         IN [rm EXCEPT !.modules =
                          ShiftModules(rm.modules, FALSE, movedTask,
                                       newStartDate, diffMs),
                       !.totalTimeEstimate = recalculateTotalTime(rm.modules)]

\* rescheduleRoadmap with the summary recomputed on the early return too.
rescheduleRoadmapRecalcAlways(rm, movedTask, newStartDate) ==
    LET updatedModules ==
          IF FastPath(rm, movedTask, newStartDate)
          THEN [i \in DOMAIN rm.modules |->
                  [rm.modules[i] EXCEPT !.tasks =
                     [j \in DOMAIN rm.modules[i].tasks |->
                        FastTask(rm.modules[i].tasks[j], movedTask,
                                 newStartDate)]]]
          ELSE ShiftModules(rm.modules, FALSE, movedTask, newStartDate,
                            getTime(newStartDate)
                              - getTime(originalTask(rm, movedTask).startDate))
    IN [rm EXCEPT !.modules = updatedModules,
                  !.totalTimeEstimate = recalculateTotalTime(updatedModules)]

rescheduleRoadmap(rm, movedTask, newStartDate) ==
    IF FastPath(rm, movedTask, newStartDate)
    THEN [rm EXCEPT !.modules =
            [i \in DOMAIN rm.modules |->
               [rm.modules[i] EXCEPT !.tasks =
                  [j \in DOMAIN rm.modules[i].tasks |->
                     FastTask(rm.modules[i].tasks[j], movedTask, newStartDate)]]]]
    ELSE LET oldStart == getTime(originalTask(rm, movedTask).startDate)
             newStart == getTime(newStartDate)
             diffMs == newStart - oldStart
             updatedModules ==
                 ShiftModules(rm.modules, FALSE, movedTask, newStartDate, diffMs)
         IN [rm EXCEPT !.modules = updatedModules,
                       !.totalTimeEstimate = recalculateTotalTime(updatedModules)]

(***************************************************************************)
(* The argument object after a call of rescheduleRoadmap.  The function    *)
(* assigns to no property of its argument: both branches build new arrays  *)
(* with map and new objects with spread.                                   *)
(***************************************************************************)
\* An engine that writes the new dates into the objects it was given.
ArgumentAfterCallInPlace(rm, movedTask, newStartDate) ==
    rescheduleRoadmap(rm, movedTask, newStartDate)

ArgumentAfterCall(rm, movedTask, newStartDate) == rm

(***************************************************************************)
(* The roadmaps the program can hold.  A generated task                    *)
(* (geminiService.ts, responseSchema) has an id, a startDate and an        *)
(* endDate and is not completed; CalendarView.handleDrop clears both dates *)
(* of a task, and the early return of rescheduleRoadmap sets startDate     *)
(* alone, to a date or to ''.  totalTimeEstimate is the generator's free   *)
(* text ('4 weeks') until a cascade replaces it.                           *)
(***************************************************************************)
NewTask(id, startDate, endDate) ==
    [id |-> id, title |-> "Task " \o id, estimatedMinutes |-> 30,
     isCompleted |-> FALSE, completedAt |-> Absent, priority |-> "Medium",
     startDate |-> startDate, endDate |-> endDate, lastEditedBy |-> Absent]

\* The startDate / endDate pairs of a generated task: a start day and an
\* end day on or after it.
GeneratedDates ==
    { <<DateStr(p[1]), DateStr(p[2])>> : p \in { q \in Days \X Days : q[1] <= q[2] } }

\* The startDate / endDate pairs a stored task can have.
StoredDates ==
    {<<Undefined, Undefined>>}
    \cup ( ({EmptyStr} \cup {DateStr(d) : d \in Days})
           \X ({Undefined} \cup {DateStr(d) : d \in Days}) )

\* getStamp() and new Date().toISOString() of the Dashboard.
Stamp == [kind |-> "stamp", email |-> "user@example.com"]

Now == [kind |-> "time"]

Priorities == <<"High", "Medium", "Low">>

\* The k-th task of a roadmap; it has been marked complete
\* (Dashboard.updateTask, handleBatchComplete) when its id is in done.
StoredTask(k, dates, done) ==
    [NewTask(TaskIds[k], dates[k][1], dates[k][2]) EXCEPT
       !.priority = Priorities[k],
       !.estimatedMinutes = 15 * k,
       !.isCompleted = TaskIds[k] \in done,
       !.completedAt = IF TaskIds[k] \in done THEN Now ELSE Absent,
       !.lastEditedBy = IF TaskIds[k] \in done THEN Stamp ELSE Absent]

\* The tasks first+1 .. first+n of a roadmap.
StoredTasks(first, n, dates, done) ==
    [j \in 1 .. n |-> StoredTask(first + j, dates, done)]

RECURSIVE StoredModules(_, _, _, _)
StoredModules(shape, first, dates, done) ==
    IF shape = <<>> THEN <<>>
    ELSE <<[id |-> "m" \o ToString(Len(shape)), title |-> "Module",
            tasks |-> StoredTasks(first, Head(shape), dates, done)]>>
         \o StoredModules(Tail(shape), first + Head(shape), dates, done)

RECURSIVE Sum(_)
Sum(shape) == IF shape = <<>> THEN 0 ELSE Head(shape) + Sum(Tail(shape))

\* A roadmap of the layout shape with the given dates, completed tasks and
\* summary.
StoredRoadmap(shape, dates, done, est) ==
    [title |-> "Roadmap", totalTimeEstimate |-> est,
     modules |-> StoredModules(shape, 0, dates, done)]

\* roadmap.modules.flatMap(m => m.tasks...) of the views.
allTasks(rm) == FlattenTasks(rm.modules)

Range(seq) == { seq[i] : i \in DOMAIN seq }

NoCall == [kind |-> "none"]

\* What the model remembers of the latest call of rescheduleRoadmap.
CallRecord(rm, movedTask, newStartDate) ==
    [kind |-> "call", before |-> rm, movedTask |-> movedTask,
     newStartDate |-> newStartDate,
     argument |-> ArgumentAfterCall(rm, movedTask, newStartDate),
     returned |-> rescheduleRoadmap(rm, movedTask, newStartDate)]

\* A task a view still holds although the roadmap no longer has it.
StaleTask == NewTask(GhostId, Undefined, Undefined)

\* The engine is a pure function of its arguments: the model applies it
\* once to every roadmap the program can hold, which is a roadmap whose
\* dates have been edited and whose summary a cascade has set (a cascade
\* leaves the moved task with a start date), or a roadmap as generated with
\* any of its tasks marked complete since.
Init ==
    /\ call = NoCall
    /\ \E shape \in Shapes :
          \/ \E dates \in [1 .. Sum(shape) -> StoredDates] :
                /\ \E k \in DOMAIN dates : Truthy(dates[k][1])
                /\ roadmap = StoredRoadmap(shape, dates, {},
                                recalculateTotalTime(
                                   StoredModules(shape, 0, dates, {})))
          \/ \E dates \in [1 .. Sum(shape) -> GeneratedDates] :
                \E done \in SUBSET { TaskIds[k] : k \in 1 .. Sum(shape) } :
                   roadmap = StoredRoadmap(shape, dates, done, "4 weeks")
    /\ NoApp

\* Planning.handleDateChange: the date field of a listed task is edited.
handleDateChange(task, newDate) ==
    /\ call = NoCall
    /\ call' = CallRecord(roadmap, task, newDate)
    /\ roadmap' = call'.returned

\* Unschedule that derives the summary again from the modules it returns.
UnscheduleRecalculates(rm, taskToMove) ==
    LET updatedModules ==
          [i \in DOMAIN rm.modules |->
             [rm.modules[i] EXCEPT !.tasks =
                [j \in DOMAIN rm.modules[i].tasks |->
                   IF rm.modules[i].tasks[j].id = taskToMove.id
                   THEN [rm.modules[i].tasks[j] EXCEPT
                           !.startDate = Undefined,
                           !.endDate = Undefined]
                   ELSE rm.modules[i].tasks[j]]]]
    IN [rm EXCEPT !.modules = updatedModules,
                  !.totalTimeEstimate = recalculateTotalTime(updatedModules)]

\* The else branch of handleDrop (target null): startDate and endDate of
\* the task are set to undefined, { ...roadmap, modules: updatedModules }.
Unschedule(rm, taskToMove) ==
    [rm EXCEPT !.modules =
       [i \in DOMAIN rm.modules |->
          [rm.modules[i] EXCEPT !.tasks =
             [j \in DOMAIN rm.modules[i].tasks |->
                IF rm.modules[i].tasks[j].id = taskToMove.id
                THEN [rm.modules[i].tasks[j] EXCEPT
                        !.startDate = Undefined,
                        !.endDate = Undefined]
                ELSE rm.modules[i].tasks[j]]]]]

\* CalendarView.handleDrop: the dragged task is dropped on a day of the
\* calendar (targetDateStr a date) or on the unscheduled list (null, here
\* Undefined).
handleDrop(taskToMove, targetDateStr) ==
    /\ call = NoCall
    /\ IF taskToMove.startDate = targetDateStr /\ targetDateStr # Undefined
       THEN UNCHANGED vars
       ELSE IF Truthy(targetDateStr)
       THEN /\ call' = CallRecord(roadmap, taskToMove, targetDateStr)
            /\ roadmap' = call'.returned
       ELSE /\ call' = NoCall
            /\ roadmap' = Unschedule(roadmap, taskToMove)

\* A merge that lets the form's dates through: { ...t, ...editingTask.task,
\* ...completionUpdate, lastEditedBy: getStamp() }.
MergeEditFormDates(t, form) ==
    [form EXCEPT
       !.completedAt = IF form.isCompleted /\ ~t.isCompleted THEN Now
                       ELSE IF form.completedAt = Absent THEN t.completedAt
                       ELSE form.completedAt,
       !.lastEditedBy = Stamp]

\* { ...t, ...editingTask.task, ...completionUpdate, startDate: t.startDate,
\*   endDate: t.endDate, lastEditedBy: getStamp() } of handleSaveEdit.
MergeEdit(t, form) ==
    [form EXCEPT
       !.completedAt = IF form.isCompleted /\ ~t.isCompleted THEN Now
                       ELSE IF form.completedAt = Absent THEN t.completedAt
                       ELSE form.completedAt,
       !.startDate = t.startDate,
       !.endDate = t.endDate,
       !.lastEditedBy = Stamp]

\* finalModules of handleSaveEdit: the edited task of the module the form
\* was opened in takes the form's fields.
finalModules(reshuffled, editingTask) ==
    [i \in DOMAIN reshuffled.modules |->
       IF reshuffled.modules[i].id # editingTask.moduleId
       THEN reshuffled.modules[i]
       ELSE [reshuffled.modules[i] EXCEPT !.tasks =
               [j \in DOMAIN reshuffled.modules[i].tasks |->
                  IF reshuffled.modules[i].tasks[j].id = editingTask.task.id
                  THEN MergeEdit(reshuffled.modules[i].tasks[j], editingTask.task)
                  ELSE reshuffled.modules[i].tasks[j]]]]

\* finalRoadmap of handleSaveEdit, from the roadmap rescheduleRoadmap returned.
finalRoadmap(reshuffled, editingTask) ==
    [reshuffled EXCEPT !.modules = finalModules(reshuffled, editingTask)]

\* The newStartDate handleSaveEdit passes: editingTask.task.startDate || ''.
FormStart(form) == IF Truthy(form.startDate) THEN form.startDate ELSE EmptyStr

\* Dashboard.handleSaveEdit: the edit form (editingTask: the module id and
\* the edited copy of a task) is saved.
handleSaveEdit(editingTask) ==
    /\ call = NoCall
    /\ call' = CallRecord(roadmap, editingTask.task, FormStart(editingTask.task))
    /\ roadmap' = finalRoadmap(call'.returned, editingTask)

DateChange ==
    /\ \E task \in Range(allTasks(roadmap)) :
          \E newDate \in {EmptyStr} \cup {DateStr(d) : d \in Days} :
             handleDateChange(task, newDate)
    /\ UNCHANGED appVars

Drop ==
    /\ \E taskToMove \in Range(allTasks(roadmap)) \cup {StaleTask} :
          \E targetDateStr \in {Undefined} \cup {DateStr(d) : d \in Days} :
             handleDrop(taskToMove, targetDateStr)
    /\ UNCHANGED appVars

\* The form holds the copy of a task of the roadmap, or of a task the
\* roadmap no longer has, with the start date field as it was, cleared or
\* set to a day.
SaveEdit ==
    /\ \E i \in DOMAIN roadmap.modules :
          \E opened \in Range(roadmap.modules[i].tasks) \cup {StaleTask} :
             \E start \in {opened.startDate, EmptyStr} \cup {DateStr(d) : d \in Days} :
                handleSaveEdit([moduleId |-> roadmap.modules[i].id,
                                task |-> [opened EXCEPT !.startDate = start]])
    /\ UNCHANGED appVars

Next == DateChange \/ Drop \/ SaveEdit

Spec == Init /\ [][Next]_vars

(***************************************************************************)
(* Vocabulary of the properties.  They speak of the latest call of         *)
(* rescheduleRoadmap: its roadmap argument as it was (call.before), the    *)
(* moved task, the new start date and the roadmap returned.                *)
(***************************************************************************)
Called == call # NoCall

\* The tasks before and after the call, in traversal order.
Before == allTasks(call.before)

After == allTasks(call.returned)

\* The task at position k is the moved one and the call takes the cascade
\* path: it has a start date, the new one is non-empty and differs.
CascadeAt(k) ==
    /\ Before[k].id = call.movedTask.id
    /\ Truthy(Before[k].startDate)
    /\ Truthy(call.newStartDate)
    /\ Before[k].startDate # call.newStartDate

\* newStartDate - oldStartDate, in days.
DeltaDays(k) == call.newStartDate.day - Before[k].startDate.day

\* The date n days after date.
Shifted(date, n) == DateStr(date.day + n)

(***************************************************************************)
(* The scenarios of the specification's section 8.  Day n stands for       *)
(* 2024-01-n.                                                              *)
(***************************************************************************)
\* Module A = [X(01-01), Y(01-03)], module B = [Z(01-05)]; X moves to 01-02.
ScenarioXYZ ==
    [title |-> "Scenario", totalTimeEstimate |-> "4 weeks",
     modules |-> << [id |-> "A", title |-> "Module A",
                     tasks |-> << NewTask("X", DateStr(1), Undefined),
                                  NewTask("Y", DateStr(3), Undefined) >>],
                    [id |-> "B", title |-> "Module B",
                     tasks |-> << NewTask("Z", DateStr(5), Undefined) >>] >>]

ScenarioXYZMoved ==
    rescheduleRoadmap(ScenarioXYZ, ScenarioXYZ.modules[1].tasks[1], DateStr(2))

\* P1 .. P5 all start on day 10; P3 moves to day 13.
ScenarioP ==
    [title |-> "Scenario", totalTimeEstimate |-> "4 weeks",
     modules |-> << [id |-> "A", title |-> "Module A",
                     tasks |-> << NewTask("P1", DateStr(10), DateStr(10)),
                                  NewTask("P2", DateStr(10), DateStr(10)) >>],
                    [id |-> "B", title |-> "Module B",
                     tasks |-> << NewTask("P3", DateStr(10), DateStr(10)),
                                  NewTask("P4", DateStr(10), DateStr(10)) >>],
                    [id |-> "C", title |-> "Module C",
                     tasks |-> << NewTask("P5", DateStr(10), DateStr(10)) >>] >>]

ScenarioPMoved ==
    rescheduleRoadmap(ScenarioP, ScenarioP.modules[2].tasks[1], DateStr(13))

(***************************************************************************)
(* C1.  On the cascade path every task after the moved one in traversal    *)
(* order that has a startDate gets its startDate, and its endDate when it  *)
(* has one, shifted by exactly newStartDate - oldStartDate, in later       *)
(* modules too.  In the X, Y, Z scenario Y moves to 01-04 and Z to 01-06.  *)
(***************************************************************************)
C1_LaterTasksShifted ==
    /\ Called =>
         \A k \in DOMAIN Before : CascadeAt(k) =>
            /\ DOMAIN After = DOMAIN Before
            /\ \A j \in DOMAIN Before :
                  (j > k /\ Truthy(Before[j].startDate)) =>
                     /\ After[j].startDate
                          = Shifted(Before[j].startDate, DeltaDays(k))
                     /\ Truthy(Before[j].endDate) =>
                          After[j].endDate
                            = Shifted(Before[j].endDate, DeltaDays(k))
    /\ allTasks(ScenarioXYZMoved)[2].startDate = DateStr(4)
    /\ allTasks(ScenarioXYZMoved)[3].startDate = DateStr(6)

\* The first task is moved and a task of a later module, which has both
\* dates, has been shifted.
C1_Witness ==
    /\ Called
    /\ CascadeAt(1)
    /\ Len(call.before.modules) >= 2
    /\ Len(call.before.modules[1].tasks) >= 1
    /\ LET n == Len(call.before.modules)
           old == call.before.modules[n].tasks
           new == call.returned.modules[n].tasks
       IN /\ Len(old) >= 1
          /\ Truthy(old[1].startDate)
          /\ Truthy(old[1].endDate)
          /\ new[1].startDate # old[1].startDate
          /\ new[1].endDate # old[1].endDate

(***************************************************************************)
(* C2.  On the cascade path the tasks before the moved one, and the later  *)
(* tasks that have no startDate, keep their startDate and endDate          *)
(* whatever these are.  In the P1 .. P5 scenario P1 and P2 stay on day 10  *)
(* and P3, P4, P5 move to day 13.                                          *)
(***************************************************************************)
C2_OthersKeepDates ==
    /\ Called =>
         \A k \in DOMAIN Before : CascadeAt(k) =>
            /\ DOMAIN After = DOMAIN Before
            /\ \A j \in DOMAIN Before :
                  (j < k \/ (j > k /\ ~Truthy(Before[j].startDate))) =>
                     /\ After[j].startDate = Before[j].startDate
                     /\ After[j].endDate = Before[j].endDate
    /\ \A j \in {1, 2} :
          /\ allTasks(ScenarioPMoved)[j].startDate = DateStr(10)
          /\ allTasks(ScenarioPMoved)[j].endDate = DateStr(10)
    /\ \A j \in {3, 4, 5} :
          /\ allTasks(ScenarioPMoved)[j].startDate = DateStr(13)
          /\ allTasks(ScenarioPMoved)[j].endDate = DateStr(13)

\* The second task is moved; the first has both dates, the third has an
\* endDate and no startDate.
C2_Witness ==
    /\ Called
    /\ Len(Before) = 3
    /\ CascadeAt(2)
    /\ Truthy(Before[1].startDate)
    /\ Truthy(Before[1].endDate)
    /\ ~Truthy(Before[3].startDate)
    /\ Truthy(Before[3].endDate)
    /\ After[2].startDate # Before[2].startDate

(***************************************************************************)
(* C3.  On the cascade path the moved task ends with startDate equal to    *)
(* newStartDate; its endDate, when it had one, is shifted by the same      *)
(* difference, and when it had none it still has none.                     *)
(***************************************************************************)
C3_MovedTaskDates ==
    Called =>
       \A k \in DOMAIN Before : CascadeAt(k) =>
          /\ DOMAIN After = DOMAIN Before
          /\ After[k].startDate = call.newStartDate
          /\ IF Truthy(Before[k].endDate)
             THEN After[k].endDate = Shifted(Before[k].endDate, DeltaDays(k))
             ELSE ~Truthy(After[k].endDate)

\* A moved task that has an endDate, which the call has shifted.
C3_Witness ==
    /\ Called
    /\ \E k \in DOMAIN Before :
          /\ CascadeAt(k)
          /\ Truthy(Before[k].endDate)
          /\ After[k].endDate # Before[k].endDate

(***************************************************************************)
(* C4.  After every call, on the early return as on the cascade path, the  *)
(* returned totalTimeEstimate equals recalculateTotalTime of the returned  *)
(* modules.                                                                *)
(***************************************************************************)
C4_TotalAlwaysRederived ==
    Called =>
       call.returned.totalTimeEstimate
         = recalculateTotalTime(call.returned.modules)

(***************************************************************************)
(* C5.  On the early return for a located task (it has no startDate, or    *)
(* newStartDate is empty, or equal to its startDate) only that task's      *)
(* startDate is set, to newStartDate: every other task, the task's endDate *)
(* and totalTimeEstimate are as they were, wherever the task sits.         *)
(***************************************************************************)
FastAt(k) ==
    /\ Before[k].id = call.movedTask.id
    /\ \/ ~Truthy(Before[k].startDate)
       \/ ~Truthy(call.newStartDate)
       \/ Before[k].startDate = call.newStartDate

C5_FastPathFrame ==
    Called =>
       \A k \in DOMAIN Before : FastAt(k) =>
          /\ DOMAIN After = DOMAIN Before
          /\ After[k].startDate = call.newStartDate
          /\ After[k].endDate = Before[k].endDate
          /\ \A j \in DOMAIN Before : j # k => After[j] = Before[j]
          /\ call.returned.totalTimeEstimate = call.before.totalTimeEstimate

\* The last of three tasks had no startDate and gets one, later than every
\* date of the two tasks before it.
C5_Witness ==
    /\ Called
    /\ Len(Before) = 3
    /\ FastAt(3)
    /\ ~Truthy(Before[3].startDate)
    /\ Truthy(call.newStartDate)
    /\ Truthy(Before[1].startDate)
    /\ Truthy(Before[2].startDate)
    /\ After[3].startDate = call.newStartDate
    /\ recalculateTotalTime(call.returned.modules)
         # call.returned.totalTimeEstimate

(***************************************************************************)
(* C6.  On the cascade path totalTimeEstimate is recalculateTotalTime of   *)
(* the modules as they are after the shifts; for the X, Y, Z scenario      *)
(* moved by one day it is "5 days".                                        *)
(***************************************************************************)
C6_CascadeTotal ==
    /\ Called =>
         \A k \in DOMAIN Before : CascadeAt(k) =>
            call.returned.totalTimeEstimate
              = recalculateTotalTime(call.returned.modules)
    /\ ScenarioXYZMoved.totalTimeEstimate = "5 days"

\* A cascade after which the summary of the shifted modules differs from
\* the summary of the modules passed in.
C6_Witness ==
    /\ Called
    /\ \E k \in DOMAIN Before : CascadeAt(k)
    /\ recalculateTotalTime(call.returned.modules)
         # recalculateTotalTime(call.before.modules)
    /\ call.before.totalTimeEstimate = recalculateTotalTime(call.before.modules)

(***************************************************************************)
(* C7.  When no task has the id of movedTask, the call returns a roadmap   *)
(* equal to its argument (modules, tasks, dates, totalTimeEstimate), for   *)
(* every newStartDate, the empty one included.                             *)
(***************************************************************************)
NotFound == \A j \in DOMAIN Before : Before[j].id # call.movedTask.id

C7_UnknownIdNoChange ==
    (Called /\ NotFound) => call.returned = call.before

\* An unknown id with the empty newStartDate, on a roadmap that has dates
\* and a summary that is out of date.
C7_Witness ==
    /\ Called
    /\ NotFound
    /\ call.newStartDate = EmptyStr
    /\ \E j \in DOMAIN Before : Truthy(Before[j].startDate)
    /\ call.before.totalTimeEstimate # recalculateTotalTime(call.before.modules)

(***************************************************************************)
(* C8.  A move of a task to the startDate it already has changes nothing:  *)
(* every task's startDate and endDate and the totalTimeEstimate are the    *)
(* same in the result as in the argument.                                  *)
(***************************************************************************)
SameDateAt(k) ==
    /\ Before[k].id = call.movedTask.id
    /\ Before[k].startDate = call.newStartDate

C8_SameDateNoOp ==
    Called =>
       \A k \in DOMAIN Before : SameDateAt(k) =>
          /\ DOMAIN After = DOMAIN Before
          /\ \A j \in DOMAIN Before :
                /\ After[j].startDate = Before[j].startDate
                /\ After[j].endDate = Before[j].endDate
          /\ call.returned.totalTimeEstimate = call.before.totalTimeEstimate

\* The first task is moved to the day it is on; later tasks have dates and
\* the summary is out of date.
C8_Witness ==
    /\ Called
    /\ Len(Before) >= 2
    /\ SameDateAt(1)
    /\ Truthy(call.newStartDate)
    /\ Truthy(Before[2].startDate)
    /\ call.before.totalTimeEstimate # recalculateTotalTime(call.before.modules)

C10_OnlyDatesChange ==
    Called =>
       /\ [call.returned EXCEPT !.modules = call.before.modules,
                                !.totalTimeEstimate =
                                    call.before.totalTimeEstimate]
            = call.before
       /\ DOMAIN call.returned.modules = DOMAIN call.before.modules
       /\ \A i \in DOMAIN call.before.modules :
             LET old == call.before.modules[i]
                 new == call.returned.modules[i]
             IN /\ [new EXCEPT !.tasks = old.tasks] = old
                /\ DOMAIN new.tasks = DOMAIN old.tasks
                /\ \A j \in DOMAIN old.tasks :
                      [new.tasks[j] EXCEPT !.startDate = old.tasks[j].startDate,
                                           !.endDate = old.tasks[j].endDate]
                        = old.tasks[j]

\* A cascade that has moved a completed task.
C10_Witness ==
    /\ Called
    /\ \E k \in DOMAIN Before :
          /\ CascadeAt(k)
          /\ \E j \in DOMAIN Before :
                /\ j > k
                /\ Before[j].isCompleted
                /\ Before[j].completedAt = Now
                /\ After[j].startDate # Before[j].startDate

(***************************************************************************)
(* Sequences of calls.  Planning shows every task with a date field; each  *)
(* edit of a field, to a day or to the empty string, is one call of        *)
(* rescheduleRoadmap on the roadmap the previous edit has left.  The       *)
(* roadmap is as generated at first: every task has a startDate and an     *)
(* endDate on or after it.  Edits that would carry a date out of the days  *)
(* of the model are left out.                                              *)
(***************************************************************************)
InWindow(rm) ==
    \A i \in DOMAIN rm.modules : \A j \in DOMAIN rm.modules[i].tasks :
       LET t == rm.modules[i].tasks[j]
       IN /\ Truthy(t.startDate) => t.startDate.day \in Days
          /\ Truthy(t.endDate) => t.endDate.day \in Days

SeqInit ==
    /\ call = NoCall
    /\ \E shape \in Shapes :
          \E dates \in [1 .. Sum(shape) -> GeneratedDates] :
             roadmap = StoredRoadmap(shape, dates, {}, "4 weeks")
    /\ NoApp

\* Planning.handleDateChange, any number of times.
DateChanges ==
    /\ \E task \in Range(allTasks(roadmap)) :
          \E newDate \in {EmptyStr} \cup {DateStr(d) : d \in Days} :
             /\ call' = CallRecord(roadmap, task, newDate)
             /\ roadmap' = call'.returned
             /\ InWindow(roadmap')
    /\ UNCHANGED appVars

SeqNext == DateChanges

SeqSpec == SeqInit /\ [][SeqNext]_vars

(***************************************************************************)
(* C11.  From a roadmap in which every task has startDate <= endDate,      *)
(* after any sequence of calls of rescheduleRoadmap (any task, any target  *)
(* date, the empty one included) every task that has both dates has        *)
(* startDate <= endDate.                                                   *)
(***************************************************************************)
C11_EndNotBeforeStart ==
    \A k \in DOMAIN allTasks(roadmap) :
       LET t == allTasks(roadmap)[k]
       IN (Truthy(t.startDate) /\ Truthy(t.endDate)) =>
             t.startDate.day <= t.endDate.day

(***************************************************************************)
(* Order of the start dates along the traversal order.                     *)
(***************************************************************************)
\* The start dates of the scheduled tasks are non-decreasing along tasks.
SortedStarts(tasks) ==
    \A i \in DOMAIN tasks : \A j \in DOMAIN tasks :
       (i < j /\ Truthy(tasks[i].startDate) /\ Truthy(tasks[j].startDate)) =>
          tasks[i].startDate.day <= tasks[j].startDate.day

\* The new start date of the task at position k is not earlier than the
\* start date of any scheduled task before it and, when the task has no
\* start date (the early return shifts nothing), not later than the start
\* date of any scheduled task after it.
FitsAt(k) ==
    Truthy(call.newStartDate) =>
       /\ \A j \in DOMAIN Before :
             (j < k /\ Truthy(Before[j].startDate)) =>
                Before[j].startDate.day <= call.newStartDate.day
       /\ ~Truthy(Before[k].startDate) =>
             \A j \in DOMAIN Before :
                (j > k /\ Truthy(Before[j].startDate)) =>
                   call.newStartDate.day <= Before[j].startDate.day

(***************************************************************************)
(* C12 as stated.  If the start dates of the scheduled tasks are           *)
(* non-decreasing along the traversal order before a call, they are        *)
(* non-decreasing after it, for forward and for backward moves.            *)
(***************************************************************************)
C12_OrderPreserved ==
    (Called /\ SortedStarts(Before)) => SortedStarts(After)

(***************************************************************************)
(* C12 as amended.  If the start dates of the scheduled tasks are          *)
(* non-decreasing along the traversal order before a call, they are        *)
(* non-decreasing after it whenever the new start date is not earlier than *)
(* the start date of any scheduled task before the moved one and, for a    *)
(* task that had no start date, not later than that of any scheduled task  *)
(* after it: in particular after every forward move of a scheduled task.   *)
(***************************************************************************)
C12_OrderKeptWhenDateFits ==
    (Called /\ SortedStarts(Before)) =>
       \A k \in DOMAIN Before :
          (Before[k].id = call.movedTask.id /\ FitsAt(k)) => SortedStarts(After)

\* A forward move of the second of three scheduled tasks, which shifts the
\* third.
C12_Witness ==
    /\ Called
    /\ Len(Before) = 3
    /\ SortedStarts(Before)
    /\ CascadeAt(2)
    /\ DeltaDays(2) > 0
    /\ Truthy(Before[1].startDate)
    /\ Truthy(Before[3].startDate)
    /\ After[3].startDate # Before[3].startDate
    /\ SortedStarts(After)

(***************************************************************************)
(* addTime as a function of its arguments.  The date is the startDate of   *)
(* a task, on a day before, on or after the reference day; the deltas are  *)
(* signed counts of ticks, whole days and parts of days.  call records     *)
(* addTime(D, d1), addTime(addTime(D, d1), d2) and addTime(D, d1 + d2).    *)
(***************************************************************************)
\* The deltas are -MaxDelta .. MaxDelta ticks.
MaxDelta == 5

Deltas == -MaxDelta .. MaxDelta

AddDays == -MaxDay .. MaxDay

AddInit ==
    /\ call = NoCall
    /\ \E d \in AddDays :
          roadmap = StoredRoadmap(<<1>>, <<<<DateStr(d), Undefined>>>>, {},
                                  "1 days")
    /\ NoApp

AddTimeCalls ==
    /\ call = NoCall
    /\ \E t \in Range(allTasks(roadmap)) : \E d1 \in Deltas : \E d2 \in Deltas :
          call' = [kind |-> "addTime", dateStr |-> t.startDate,
                   d1 |-> d1, d2 |-> d2,
                   first |-> addTime(t.startDate, d1),
                   second |-> addTime(addTime(t.startDate, d1), d2),
                   direct |-> addTime(t.startDate, d1 + d2),
                   zero |-> addTime(t.startDate, 0)]
    /\ UNCHANGED roadmap
    /\ UNCHANGED appVars

AddNext == AddTimeCalls

AddSpec == AddInit /\ [][AddNext]_vars

Added == call.kind = "addTime"

(***************************************************************************)
(* C13 as stated.  For every valid date D and all signed deltas d1 and d2, *)
(* deltas that are not whole days included,                                *)
(* addTime(addTime(D, d1), d2) = addTime(D, d1 + d2).                      *)
(***************************************************************************)
C13_AdditiveComposition ==
    Added => call.second = call.direct

(***************************************************************************)
(* C13 as amended.  addTime(addTime(D, d1), d2) = addTime(D, d1 + d2)      *)
(* exactly when the parts of a day of d1 and d2 (d mod one day, taken      *)
(* non-negative) add up to less than one day, in particular when d1 or d2  *)
(* is a whole number of days; otherwise the composed result is the day     *)
(* before addTime(D, d1 + d2).                                             *)
(***************************************************************************)
C13_CompositionUpToPartDays ==
    Added =>
       IF (call.d1 % TicksPerDay) + (call.d2 % TicksPerDay) < TicksPerDay
       THEN call.second = call.direct
       ELSE call.second = DateStr(call.direct.day - 1)

\* A d1 of one day back and a d2 of more than a day that is not a whole
\* number of days.
C13_Witness ==
    /\ Added
    /\ call.d1 = -TicksPerDay
    /\ call.d2 % TicksPerDay # 0
    /\ call.d2 > TicksPerDay
    /\ call.first # call.dateStr
    /\ call.second = call.direct

(***************************************************************************)
(* C14.  For a valid date D and a signed delta d, addTime(D, d) is the     *)
(* calendar date of the instant D + d: day D + floor(d / one day), the     *)
(* time of day being dropped, for negative deltas too.                     *)
(***************************************************************************)
C14_DateOfShiftedInstant ==
    Added =>
       \E q \in -(MaxDelta + 1) .. MaxDelta :
          /\ q * TicksPerDay <= call.d1
          /\ call.d1 < (q + 1) * TicksPerDay
          /\ call.first = DateStr(call.dateStr.day + q)

\* A negative delta of less than a day from a day before the reference
\* day: the result is the day before.
C14_Witness ==
    /\ Added
    /\ call.dateStr.day < 0
    /\ call.d1 < 0
    /\ call.d1 > -TicksPerDay
    /\ call.first = DateStr(call.dateStr.day - 1)

(***************************************************************************)
(* C15.  For every valid calendar date D, addTime(D, 0) = D.               *)
(***************************************************************************)
C15_ZeroDeltaIdentity ==
    Added => call.zero = call.dateStr

\* addTime(D, 0) has been computed for a day before the reference day.
C15_Witness ==
    /\ Added
    /\ call.dateStr.day < 0
    /\ call.zero.kind = "date"
    /\ call.d1 = 0

(***************************************************************************)
(* recalculateTotalTime as a function of its argument.  The module lists   *)
(* are: no module, a module without tasks, and one to three modules with   *)
(* one or two tasks in all; a task has no startDate, the empty one or a    *)
(* day, and no endDate or a day, independently.  The days lie at the start *)
(* of the calendar and around a month later, on both sides of the 30 days  *)
(* at which the summary changes from days to weeks.                        *)
(***************************************************************************)
SumShapes == { <<>>, <<0>>, <<1>>, <<2>>, <<1, 1>>, <<1, 0, 1>> }

SumDays == (0 .. MaxDay) \cup { 28 + d : d \in 1 .. MaxDay + 2 }

SumDates ==
    ({Undefined, EmptyStr} \cup {DateStr(d) : d \in SumDays})
    \X ({Undefined} \cup {DateStr(d) : d \in SumDays})

SumInit ==
    /\ call = NoCall
    /\ \E shape \in SumShapes :
          \E dates \in [1 .. Sum(shape) -> SumDates] :
             roadmap = StoredRoadmap(shape, dates, {}, "4 weeks")
    /\ NoApp

\* The tasks, in traversal order, dealt out to modules of the sizes of shape.
RECURSIVE Regroup(_, _)
Regroup(shape, tasks) ==
    IF shape = <<>> THEN <<>>
    ELSE <<[id |-> "m" \o ToString(Len(shape)), title |-> "Module",
            tasks |-> SubSeq(tasks, 1, Head(shape))]>>
         \o Regroup(Tail(shape), SubSeq(tasks, Head(shape) + 1, Len(tasks)))

Orders(n) ==
    { p \in [1 .. n -> 1 .. n] : \A i \in 1 .. n : \A j \in 1 .. n :
                                    p[i] = p[j] => i = j }

\* recalculateTotalTime(modules).
Recalculate ==
    /\ call = NoCall
    /\ call' = [kind |-> "recalc", modules |-> roadmap.modules,
                returned |-> recalculateTotalTime(roadmap.modules)]
    /\ UNCHANGED roadmap
    /\ UNCHANGED appVars

\* recalculateTotalTime of the modules and of the same tasks in another
\* order, dealt out to modules in another way.
RecalculateReordered ==
    /\ call = NoCall
    /\ LET tasks == allTasks(roadmap)
       IN \E p \in Orders(Len(tasks)) :
             \E shape \in { sh \in SumShapes : Sum(sh) = Len(tasks) } :
                LET other == Regroup(shape, [i \in 1 .. Len(tasks) |-> tasks[p[i]]])
                IN call' = [kind |-> "reordered", modules |-> roadmap.modules,
                            returned |-> recalculateTotalTime(roadmap.modules),
                            other |-> other,
                            otherReturned |-> recalculateTotalTime(other)]
    /\ UNCHANGED roadmap
    /\ UNCHANGED appVars

\* recalculateTotalTime of the modules and of the modules with one more
\* task, which has no startDate, in a module of its own at the end.
RecalculateWithUnscheduled ==
    /\ call = NoCall
    /\ \E startDate \in {Undefined, EmptyStr} :
          \E endDate \in {Undefined} \cup {DateStr(d) : d \in SumDays} :
             LET other == roadmap.modules
                            \o <<[id |-> "m0", title |-> "Module",
                                  tasks |-> <<NewTask(GhostId, startDate,
                                                      endDate)>>]>>
             IN call' = [kind |-> "unscheduled", modules |-> roadmap.modules,
                         returned |-> recalculateTotalTime(roadmap.modules),
                         other |-> other,
                         otherReturned |-> recalculateTotalTime(other)]
    /\ UNCHANGED roadmap
    /\ UNCHANGED appVars

SumNext == Recalculate \/ RecalculateReordered \/ RecalculateWithUnscheduled

SumSpec == SumInit /\ [][SumNext]_vars

Recalculated == call.kind = "recalc"

\* The days of the start dates, and of the end dates with the start date
\* standing in for a missing end date, over all tasks.
StartDays(modules) ==
    { t.startDate.day : t \in { u \in Range(FlattenTasks(modules)) :
                                  Truthy(u.startDate) } }

EndDays(modules) ==
    { IF Truthy(t.endDate) THEN t.endDate.day ELSE t.startDate.day :
        t \in { u \in Range(FlattenTasks(modules)) :
                  Truthy(u.endDate) \/ Truthy(u.startDate) } }

Least(S) == CHOOSE m \in S : \A x \in S : m <= x

Greatest(S) == CHOOSE m \in S : \A x \in S : x <= m

\* |maxDate - minDate| in days, plus one.
SpanDays(modules) ==
    Abs(Greatest(EndDays(modules)) - Least(StartDays(modules))) + 1

\* The whole number nearest to n / 7.
NearestWeeks(n) == CHOOSE w \in 0 .. n : 2 * Abs(7 * w - n) < 7

(***************************************************************************)
(* C16.  When some task has a startDate, recalculateTotalTime returns      *)
(* "<diffDays> days" when diffDays <= 30 and "<round(diffDays / 7)> weeks" *)
(* when diffDays > 30, where diffDays = |maxDate - minDate| in days + 1,   *)
(* minDate is the smallest startDate and maxDate the largest, over the     *)
(* tasks, of the endDate when the task has one and else of its startDate.  *)
(***************************************************************************)
C16_SummaryOfSpan ==
    (Recalculated /\ StartDays(call.modules) # {}) =>
       LET diffDays == SpanDays(call.modules)
       IN call.returned =
            IF diffDays <= 30 THEN ToString(diffDays) \o " days"
            ELSE ToString(NearestWeeks(diffDays)) \o " weeks"

\* A span of 32 days, rounded up to 5 weeks, with the latest date the
\* startDate of a task that has no endDate.
C16_Witness ==
    /\ Recalculated
    /\ Len(FlattenTasks(call.modules)) = 2
    /\ FlattenTasks(call.modules)[1].startDate = DateStr(31)
    /\ FlattenTasks(call.modules)[1].endDate = Undefined
    /\ FlattenTasks(call.modules)[2].startDate = DateStr(0)
    /\ FlattenTasks(call.modules)[2].endDate = DateStr(1)
    /\ call.returned = "5 weeks"

(***************************************************************************)
(* C17.  recalculateTotalTime returns "Not scheduled" exactly when no task *)
(* of any module has a startDate: for no module, for modules without       *)
(* tasks, and when tasks have an endDate but none has a startDate.         *)
(***************************************************************************)
C17_NotScheduledIffNoStart ==
    Recalculated =>
       /\ (call.returned = "Not scheduled") <=> (StartDays(call.modules) = {})
       /\ call.modules = <<>> => call.returned = "Not scheduled"
       /\ FlattenTasks(call.modules) = <<>> => call.returned = "Not scheduled"

\* Two tasks with an endDate, one without startDate and one with the empty
\* startDate.
C17_Witness ==
    /\ Recalculated
    /\ Len(FlattenTasks(call.modules)) = 2
    /\ FlattenTasks(call.modules)[1].startDate = Undefined
    /\ FlattenTasks(call.modules)[2].startDate = EmptyStr
    /\ Truthy(FlattenTasks(call.modules)[1].endDate)
    /\ Truthy(FlattenTasks(call.modules)[2].endDate)
    /\ call.returned = "Not scheduled"

(***************************************************************************)
(* C18.  The summary is derived from the scheduled tasks only: a task      *)
(* without startDate, whatever its endDate, added to the modules does not  *)
(* change the string returned.                                             *)
(***************************************************************************)
C18_UnscheduledTaskIgnored ==
    call.kind = "unscheduled" => call.otherReturned = call.returned

(***************************************************************************)
(* C19.  recalculateTotalTime returns the same string for the modules and  *)
(* for the same tasks in any other order, across modules as well: only the *)
(* collection of (startDate, endDate) pairs matters.                       *)
(***************************************************************************)
C19_OrderIndependent ==
    call.kind = "reordered" => call.otherReturned = call.returned

\* Two tasks with different dates have changed places and modules, the one
\* with the earlier endDate now coming last.
C19_Witness ==
    /\ call.kind = "reordered"
    /\ Len(call.modules) = 1
    /\ Len(call.other) = 3
    /\ Len(FlattenTasks(call.modules)) = 2
    /\ FlattenTasks(call.other)[1] = FlattenTasks(call.modules)[2]
    /\ FlattenTasks(call.other)[2] = FlattenTasks(call.modules)[1]
    /\ Truthy(FlattenTasks(call.other)[1].endDate)
    /\ Truthy(FlattenTasks(call.other)[2].endDate)
    /\ Truthy(FlattenTasks(call.other)[1].startDate)
    /\ FlattenTasks(call.other)[2].endDate.day
         < FlattenTasks(call.other)[1].endDate.day
    /\ call.returned = "4 weeks"

(***************************************************************************)
(* rescheduleRoadmap called with a copy of a task.  Dashboard.handleSaveEdit *)
(* passes the task as edited in the form, with the new start date already  *)
(* in it; CalendarView.handleDrop passes the task the drag started with.   *)
(* call records the call with the roadmap's own record of the task and the *)
(* call with a copy that has the same id and other dates, title and        *)
(* completion, on the same roadmap and with the same new start date.       *)
(***************************************************************************)
\* The copies of task t a caller can hold.
Copies(t) ==
    { [t EXCEPT !.startDate = s, !.endDate = e,
                !.title = IF edited THEN "Edited" ELSE t.title,
                !.isCompleted = IF edited THEN ~t.isCompleted
                                ELSE t.isCompleted] :
        s \in {Undefined, EmptyStr} \cup {DateStr(d) : d \in Days},
        e \in {Undefined, t.endDate},
        edited \in BOOLEAN }

CopyInit == SeqInit

RescheduleWithCopy ==
    /\ call = NoCall
    /\ \E task \in Range(allTasks(roadmap)) \cup {StaleTask} :
          \E copy \in Copies(task) :
             \E newStartDate \in {EmptyStr} \cup {DateStr(d) : d \in Days} :
                call' = [kind |-> "copy", before |-> roadmap,
                         movedTask |-> task, copy |-> copy,
                         newStartDate |-> newStartDate,
                         returned |-> rescheduleRoadmap(roadmap, task,
                                                        newStartDate),
                         copyReturned |-> rescheduleRoadmap(roadmap, copy,
                                                            newStartDate)]
    /\ UNCHANGED roadmap
    /\ UNCHANGED appVars

CopyNext == RescheduleWithCopy

CopySpec == CopyInit /\ [][CopyNext]_vars

(***************************************************************************)
(* C20.  The result of rescheduleRoadmap depends on movedTask only through *)
(* its id: with the same roadmap and newStartDate, two movedTask values    *)
(* that have the same id and differ in startDate, endDate or other fields  *)
(* give equal roadmaps; the old start date is read from the roadmap's own  *)
(* record of the task.                                                     *)
(***************************************************************************)
C20_OnlyIdMatters ==
    call.kind = "copy" => call.copyReturned = call.returned

\* A cascade for a copy that already carries the new start date, as the
\* edit form's copy does, and no endDate.
C20_Witness ==
    /\ call.kind = "copy"
    /\ call.copy.startDate = call.newStartDate
    /\ call.copy.endDate = Undefined
    /\ call.copy.title = "Edited"
    /\ Truthy(call.movedTask.startDate)
    /\ Truthy(call.movedTask.endDate)
    /\ Truthy(call.newStartDate)
    /\ call.movedTask.startDate # call.newStartDate
    /\ call.copyReturned.modules # call.before.modules
    /\ call.copyReturned.totalTimeEstimate # call.before.totalTimeEstimate

(***************************************************************************)
(* C30.  Whenever some task has a startDate, the day count behind          *)
(* recalculateTotalTime is at least 1: the result is "N days" with         *)
(* 1 <= N <= 30 or "N weeks" with N >= 4, never "0 days" or a negative     *)
(* count, also when a task's endDate lies before the earliest startDate.   *)
(***************************************************************************)
C30_CountAtLeastOne ==
    (Recalculated /\ StartDays(call.modules) # {}) =>
       \/ \E n \in 1 .. 30 : call.returned = ToString(n) \o " days"
       \/ \E n \in 4 .. 30 : call.returned = ToString(n) \o " weeks"

\* The only task ends the day before it starts: the latest date lies
\* before the earliest start.
C30_Witness ==
    /\ Recalculated
    /\ Len(FlattenTasks(call.modules)) = 1
    /\ FlattenTasks(call.modules)[1].startDate = DateStr(1)
    /\ FlattenTasks(call.modules)[1].endDate = DateStr(0)
    /\ call.returned = "2 days"

(***************************************************************************)
(* C23.  The cascade is a rigid translation of the shifted group: for any  *)
(* two date fields (startDate or endDate) of the moved task and of the     *)
(* later tasks that have a startDate, the difference in days is the same   *)
(* after the call as before, so each of these tasks keeps its duration and *)
(* the gaps between them are kept.                                         *)
(***************************************************************************)
DateFields == {"startDate", "endDate"}

\* The positions of the moved task k and of the later tasks with a startDate.
ShiftedGroup(k) ==
    { j \in DOMAIN Before : j >= k /\ Truthy(Before[j].startDate) }

C23_RigidTranslation ==
    call.kind = "copy" =>
       \A k \in DOMAIN Before : CascadeAt(k) =>
          \A i \in ShiftedGroup(k) : \A j \in ShiftedGroup(k) :
             \A f \in DateFields : \A g \in DateFields :
                (Truthy(Before[i][f]) /\ Truthy(Before[j][g])) =>
                   /\ Truthy(After[i][f])
                   /\ Truthy(After[j][g])
                   /\ After[i][f].day - After[j][g].day
                        = Before[i][f].day - Before[j][g].day

\* The first task is moved back; the last one starts on another day than
\* the first and lasts more than a day.
C23_Witness ==
    /\ call.kind = "copy"
    /\ Len(Before) = 3
    /\ CascadeAt(1)
    /\ DeltaDays(1) < 0
    /\ Before[3].startDate.day # Before[1].startDate.day
    /\ Before[3].endDate.day > Before[3].startDate.day
    /\ After[3].startDate # Before[3].startDate

(***************************************************************************)
(* Two moves of one task.  A task that has a start date D is moved to D1   *)
(* and then, on the roadmap this gives, to D2; call records that result    *)
(* and the result of moving it from the first roadmap to D2 at once.  The  *)
(* tasks have both dates, a startDate alone, an endDate and the empty      *)
(* startDate, or no date; the targets reach one day beyond the days of     *)
(* the roadmap.                                                            *)
(***************************************************************************)
TwoDates ==
    GeneratedDates
    \cup { <<DateStr(d), Undefined>> : d \in Days }
    \cup { <<Undefined, Undefined>>, <<EmptyStr, DateStr(0)>> }

Targets == { DateStr(d) : d \in 0 .. MaxDay + 1 }

TwoInit ==
    /\ call = NoCall
    /\ \E shape \in Shapes :
          \E dates \in [1 .. Sum(shape) -> TwoDates] :
             roadmap = StoredRoadmap(shape, dates, {}, "4 weeks")
    /\ NoApp

RescheduleTwice ==
    /\ call = NoCall
    /\ \E task \in { t \in Range(allTasks(roadmap)) : Truthy(t.startDate) } :
          \E d1 \in Targets \ {task.startDate} :
             \E d2 \in Targets \ {d1} :
                LET moved == rescheduleRoadmap(roadmap, task, d1)
                    again == originalTask(moved, task)
                IN call' = [kind |-> "twice", before |-> roadmap,
                            movedTask |-> task, first |-> d1,
                            newStartDate |-> d2,
                            viaFirst |-> rescheduleRoadmap(moved, again, d2),
                            returned |-> rescheduleRoadmap(roadmap, task, d2)]
    /\ UNCHANGED roadmap
    /\ UNCHANGED appVars

TwoNext == RescheduleTwice

TwoSpec == TwoInit /\ [][TwoNext]_vars

(***************************************************************************)
(* C24.  For a task with start date D and targets D1 # D and D2 # D1,      *)
(* moving it to D1 and then to D2 gives every task the startDate and the   *)
(* endDate that moving it from the original roadmap to D2 gives; moving it *)
(* to D1 and back to D restores every task's dates.                        *)
(***************************************************************************)
SameDates(tasks, others) ==
    /\ DOMAIN tasks = DOMAIN others
    /\ \A j \in DOMAIN tasks :
          /\ tasks[j].startDate = others[j].startDate
          /\ tasks[j].endDate = others[j].endDate

C24_TwoMovesAsOne ==
    call.kind = "twice" =>
       /\ SameDates(allTasks(call.viaFirst), allTasks(call.returned))
       /\ call.newStartDate = call.movedTask.startDate =>
             SameDates(allTasks(call.viaFirst), allTasks(call.before))

\* The first task goes forward and then back to its day, and a later task
\* that has both dates has gone with it and come back.
C24_Witness ==
    /\ call.kind = "twice"
    /\ Len(Before) = 3
    /\ Before[1].id = call.movedTask.id
    /\ call.newStartDate = call.movedTask.startDate
    /\ call.first.day > call.movedTask.startDate.day
    /\ Truthy(Before[3].startDate)
    /\ Truthy(Before[3].endDate)
    /\ ~Truthy(Before[2].startDate)
    /\ allTasks(call.viaFirst)[3] = Before[3]

(***************************************************************************)
(* Drops on the unscheduled list.  The calendar's list of unscheduled      *)
(* tasks is a drop target with the date null: CalendarView.handleDrop      *)
(* then clears the dates of the task.  call records the roadmap before     *)
(* the drop, the task dropped and the roadmap handed to onUpdateRoadmap.   *)
(***************************************************************************)
DropInit == Init

DropOnUnscheduled ==
    /\ call = NoCall
    /\ \E taskToMove \in Range(allTasks(roadmap)) \cup {StaleTask} :
          call' = [kind |-> "drop", before |-> roadmap,
                   movedTask |-> taskToMove,
                   returned |-> Unschedule(roadmap, taskToMove)]
    /\ roadmap' = call'.returned
    /\ UNCHANGED appVars

DropNext == DropOnUnscheduled

DropSpec == DropInit /\ [][DropNext]_vars

(***************************************************************************)
(* C26.  A drop on the unscheduled list (handleDrop with a null target)    *)
(* clears the startDate and the endDate of the task and changes nothing    *)
(* else: no other task is shifted and totalTimeEstimate keeps its value,   *)
(* also when the task defined the earliest or the latest date.             *)
(***************************************************************************)
C26_DropClearsDatesOnly ==
    call.kind = "drop" =>
       /\ call.returned.totalTimeEstimate = call.before.totalTimeEstimate
       /\ [call.returned EXCEPT !.modules = call.before.modules] = call.before
       /\ DOMAIN call.returned.modules = DOMAIN call.before.modules
       /\ \A i \in DOMAIN call.before.modules :
             [call.returned.modules[i] EXCEPT
                !.tasks = call.before.modules[i].tasks]
               = call.before.modules[i]
       /\ DOMAIN After = DOMAIN Before
       /\ \A j \in DOMAIN Before :
             IF Before[j].id = call.movedTask.id
             THEN After[j] = [Before[j] EXCEPT !.startDate = Undefined,
                                               !.endDate = Undefined]
             ELSE After[j] = Before[j]

\* The first task, which alone had the earliest start date, is dropped on
\* the list; the summary was that of the modules and is no longer.
C26_Witness ==
    /\ call.kind = "drop"
    /\ Len(Before) = 3
    /\ Before[1].id = call.movedTask.id
    /\ Truthy(Before[1].startDate)
    /\ Truthy(Before[1].endDate)
    /\ \A j \in {2, 3} :
          /\ Truthy(Before[j].startDate)
          /\ Before[j].startDate.day > Before[1].startDate.day
    /\ call.before.totalTimeEstimate = recalculateTotalTime(call.before.modules)
    /\ call.returned.totalTimeEstimate
         # recalculateTotalTime(call.returned.modules)
    /\ After[1].startDate = Undefined

(***************************************************************************)
(* The edit form.  The Dashboard opens it on a copy of a task of the       *)
(* roadmap (setEditingTask({ moduleId, task: { ...task } })); its fields   *)
(* replace properties of the copy, the two date inputs with the string of  *)
(* the input, which is '' when the field is cleared; handleSaveEdit then   *)
(* saves the copy.  The roadmap is as generated, or has tasks the calendar *)
(* has unscheduled or a task whose end date is not set.                    *)
(***************************************************************************)
EditDates ==
    GeneratedDates \cup { <<Undefined, Undefined>>, <<DateStr(0), Undefined>> }

EditInit ==
    /\ call = NoCall
    /\ \E shape \in Shapes :
          \E dates \in [1 .. Sum(shape) -> EditDates] :
             roadmap = StoredRoadmap(shape, dates, {}, "4 weeks")
    /\ NoApp

\* The strings a date input can hold.
DateInputs == {EmptyStr} \cup {DateStr(d) : d \in Days}

\* The title, start date and end date fields are edited or left alone,
\* and the form is saved.
SaveEditedForm ==
    /\ call = NoCall
    /\ \E i \in DOMAIN roadmap.modules :
          \E opened \in Range(roadmap.modules[i].tasks) :
             \E title \in {opened.title, "Edited"} :
                \E start \in {opened.startDate} \cup DateInputs :
                   \E end \in {opened.endDate} \cup DateInputs :
                      LET form == [opened EXCEPT !.title = title,
                                                 !.startDate = start,
                                                 !.endDate = end]
                          editingTask == [moduleId |-> roadmap.modules[i].id,
                                          task |-> form]
                      IN /\ call' =
                               [kind |-> "edit", before |-> roadmap,
                                editingTask |-> editingTask,
                                reshuffled |->
                                   rescheduleRoadmap(roadmap, form, FormStart(form))]
                         /\ roadmap' = finalRoadmap(call'.reshuffled, editingTask)
    /\ UNCHANGED appVars

EditNext == SaveEditedForm

EditSpec == EditInit /\ [][EditNext]_vars

Edited == call.kind = "edit"

\* The tasks of the roadmap rescheduleRoadmap returned to handleSaveEdit.
Reshuffled == allTasks(call.reshuffled)

\* The tasks of the roadmap handleSaveEdit stores.
Saved == allTasks(roadmap)

\* The same date, or no date on either side.
SameDay(a, b) == IF Truthy(a) \/ Truthy(b) THEN a = b ELSE TRUE

\* The form's start date is that of the task as it was, and its end date
\* is not.
EndEditAlone(k) ==
    /\ call.editingTask.task.startDate = Before[k].startDate
    /\ call.editingTask.task.endDate # Before[k].endDate

\* C27: when handleSaveEdit saves the form of a task, the stored task has
\* the startDate and the endDate of the rescheduleRoadmap result and the
\* other fields of the form; its startDate is the form's start date, the
\* empty string when the form has none; and when the form differs from the
\* task in the end date and not in the start date, every task keeps the
\* dates it had (a start date that was not set is stored as not set or as
\* the empty string).
C27_SavedDatesFromEngine ==
    Edited =>
       \A k \in DOMAIN Before :
          Before[k].id = call.editingTask.task.id =>
             /\ Saved[k].startDate = Reshuffled[k].startDate
             /\ Saved[k].endDate = Reshuffled[k].endDate
             /\ Saved[k].startDate =
                   IF Truthy(call.editingTask.task.startDate)
                   THEN call.editingTask.task.startDate ELSE EmptyStr
             /\ \A f \in {"id", "title", "estimatedMinutes", "priority", "isCompleted"} :
                   Saved[k][f] = call.editingTask.task[f]
             /\ EndEditAlone(k) =>
                   \A j \in DOMAIN Before :
                      /\ SameDay(Saved[j].startDate, Before[j].startDate)
                      /\ Saved[j].endDate = Before[j].endDate

\* An end date typed into the form of a scheduled task, the start date left
\* alone, has been saved with an edited title: the title is stored and the
\* end date is not.
C27_Witness ==
    /\ Edited
    /\ \E k \in DOMAIN Before :
          /\ Before[k].id = call.editingTask.task.id
          /\ Truthy(Before[k].startDate)
          /\ EndEditAlone(k)
          /\ Truthy(call.editingTask.task.endDate)
          /\ Saved[k].title = "Edited"
          /\ Saved[k].endDate # call.editingTask.task.endDate

(***************************************************************************)
(* Completion.  The Dashboard toggles one task (updateTask with            *)
(* isCompleted), completes or reopens the selected tasks                   *)
(* (handleBatchComplete), saves the edit form, which it opens on a task of *)
(* the roadmap and closes before anything else can be clicked, and         *)
(* Planning moves a task.  Every handler hands the new roadmap to          *)
(* onUpdateRoadmap, and the next one works on it.  The roadmap is as       *)
(* generated at first, no task completed.                                  *)
(***************************************************************************)
\* An updateTask that records a completion and never clears it.
updateTaskKeepsCompletedAt(rm, moduleId, taskId, isCompleted) ==
    [rm EXCEPT !.modules =
       [i \in DOMAIN rm.modules |->
          IF rm.modules[i].id # moduleId THEN rm.modules[i]
          ELSE [rm.modules[i] EXCEPT !.tasks =
                  [j \in DOMAIN rm.modules[i].tasks |->
                     IF rm.modules[i].tasks[j].id # taskId
                     THEN rm.modules[i].tasks[j]
                     ELSE [rm.modules[i].tasks[j] EXCEPT
                             !.isCompleted = isCompleted,
                             !.completedAt = IF isCompleted THEN Now ELSE @,
                             !.lastEditedBy = Stamp]]]]]

\* Dashboard.updateTask(moduleId, taskId, { isCompleted }): the roadmap it
\* hands to onUpdateRoadmap.
updateTask(rm, moduleId, taskId, isCompleted) ==
    [rm EXCEPT !.modules =
       [i \in DOMAIN rm.modules |->
          IF rm.modules[i].id # moduleId THEN rm.modules[i]
          ELSE [rm.modules[i] EXCEPT !.tasks =
                  [j \in DOMAIN rm.modules[i].tasks |->
                     IF rm.modules[i].tasks[j].id # taskId
                     THEN rm.modules[i].tasks[j]
                     ELSE [rm.modules[i].tasks[j] EXCEPT
                             !.isCompleted = isCompleted,
                             !.completedAt = IF isCompleted THEN Now ELSE Undefined,
                             !.lastEditedBy = Stamp]]]]]

\* Dashboard.handleBatchComplete(isCompleted) with the selection
\* selectedTasks: the roadmap it hands to onUpdateRoadmap.
handleBatchComplete(rm, selectedTasks, isCompleted) ==
    [rm EXCEPT !.modules =
       [i \in DOMAIN rm.modules |->
          [rm.modules[i] EXCEPT !.tasks =
             [j \in DOMAIN rm.modules[i].tasks |->
                IF rm.modules[i].tasks[j].id \notin selectedTasks
                THEN rm.modules[i].tasks[j]
                ELSE [rm.modules[i].tasks[j] EXCEPT
                        !.isCompleted = isCompleted,
                        !.completedAt = IF isCompleted THEN Now ELSE Undefined,
                        !.lastEditedBy = Stamp]]]]]

\* Two tasks, each in a module of its own.
DoneShapes == { <<1, 1>> }

DoneInit ==
    /\ call = NoCall
    /\ \E shape \in DoneShapes :
          \E dates \in [1 .. Sum(shape) -> GeneratedDates] :
             roadmap = StoredRoadmap(shape, dates, {}, "4 weeks")
    /\ NoApp

\* The checkbox of a task is clicked.
ToggleTask ==
    /\ \E i \in DOMAIN roadmap.modules :
          \E task \in Range(roadmap.modules[i].tasks) :
             /\ call' = [kind |-> "toggle"]
             /\ roadmap' = updateTask(roadmap, roadmap.modules[i].id, task.id,
                                      ~task.isCompleted)
    /\ UNCHANGED appVars

\* Some tasks are selected and completed or reopened together.
BatchComplete ==
    /\ \E selectedTasks \in SUBSET { t.id : t \in Range(allTasks(roadmap)) } :
          \E isCompleted \in BOOLEAN :
             /\ selectedTasks # {}
             /\ call' = [kind |-> "batch"]
             /\ roadmap' = handleBatchComplete(roadmap, selectedTasks, isCompleted)
    /\ UNCHANGED appVars

\* The form is opened on a task, its start date is edited or left alone,
\* and it is saved.
SaveForm ==
    /\ \E i \in DOMAIN roadmap.modules :
          \E opened \in Range(roadmap.modules[i].tasks) :
             \E start \in {opened.startDate} \cup DateInputs :
                /\ call' = [kind |-> "saved"]
                /\ roadmap' =
                      finalRoadmap(
                         rescheduleRoadmap(roadmap, [opened EXCEPT !.startDate = start],
                                           FormStart([opened EXCEPT !.startDate = start])),
                         [moduleId |-> roadmap.modules[i].id,
                          task |-> [opened EXCEPT !.startDate = start]])
                /\ InWindow(roadmap')
    /\ UNCHANGED appVars

\* Planning.handleDateChange: rescheduleRoadmap on the current roadmap.
MoveTask ==
    /\ \E task \in Range(allTasks(roadmap)) :
          \E newDate \in DateInputs :
             /\ call' = [kind |-> "moved"]
             /\ roadmap' = rescheduleRoadmap(roadmap, task, newDate)
             /\ InWindow(roadmap')
    /\ UNCHANGED appVars

DoneNext == ToggleTask \/ BatchComplete \/ SaveForm \/ MoveTask

DoneSpec == DoneInit /\ [][DoneNext]_vars

MAX_FREE_PROJECTS == 4

\* Rows are created up to MaxProjects.
MaxProjects == 5

\* null of errorMessage and activeProjectId.
Null == "null"

\* The messages App shows in the ERROR state: the one fetchRoadmaps throws
\* for the policy error 42P17, that of any other failed fetch, and that of
\* a failed generation.
DatabaseError == "Database configuration error"

LoadError == "Failed to load projects."

AnalyzeError == "We couldn't analyze that content."

\* errorMessage.includes("Database")
IncludesDatabase(message) == message = DatabaseError

\* The id of the n-th row created (crypto.randomUUID(): never used twice).
ProjectId(n) == "p" \o ToString(n)

\* A row that has been deleted.
NoRow == [kind |-> "deleted"]

\* newProject of handleContentSubmit: the generated roadmap with an id.
NewProject(id, shape) ==
    [id |-> id, title |-> "Roadmap", totalTimeEstimate |-> "4 weeks",
     modules |-> StoredModules(shape, 0,
                    [k \in 1 .. Sum(shape) |-> <<DateStr(0), DateStr(0)>>], {})]

\* The state of App when it mounts.
InitialApp ==
    [appState |-> "HOME", projects |-> <<>>, activeProjectId |-> Null,
     errorMessage |-> Null, session |-> FALSE, showLimitDialog |-> FALSE,
     isPro |-> FALSE]

\* The rows n, n-1 .. 1 that exist: fetchRoadmaps, ordered by created_at
\* descending.
RECURSIVE RowsFrom(_, _)
RowsFrom(table, n) ==
    IF n = 0 THEN <<>>
    ELSE (IF table[ProjectId(n)] = NoRow THEN <<>> ELSE <<table[ProjectId(n)]>>)
         \o RowsFrom(table, n - 1)

fetchRoadmaps(table) == RowsFrom(table, Cardinality(DOMAIN table))

\* projects.filter(p => p.id !== id)
RECURSIVE WithoutProject(_, _)
WithoutProject(list, id) ==
    IF list = <<>> THEN <<>>
    ELSE (IF Head(list).id = id THEN <<>> ELSE <<Head(list)>>)
         \o WithoutProject(Tail(list), id)

HasProject(list, id) == \E k \in DOMAIN list : list[k].id = id

\* activeRoadmap of App: the Dashboard is rendered when there is one.
ShowsDashboard(c) ==
    /\ app[c].appState = "DASHBOARD"
    /\ HasProject(app[c].projects, app[c].activeProjectId)

\* The UserProfile page is rendered.
ShowsProfile(c) == app[c].appState = "PROFILE" /\ app[c].session

\* renderHome()
ShowsHome(c) ==
    \/ app[c].appState = "HOME"
    \/ app[c].appState = "PROFILE" /\ ~app[c].session
    \/ app[c].appState = "DASHBOARD" /\ ~ShowsDashboard(c)

Fetch(c) == [client |-> c, op |-> "fetch"]

\* supabase.auth.onAuthStateChange: an event with a session (sign-in, token
\* refresh).  The listener is registered by the mount effect and reads the
\* appState of the first render, HOME, so it always goes to PROFILE.
SignedIn(c) ==
    /\ app' = [app EXCEPT ![c].session = TRUE, ![c].appState = "PROFILE"]
    /\ awaiting' = awaiting \cup {Fetch(c)}
    /\ UNCHANGED <<roadmap, call, rows, applied, events>>

\* supabase.auth.onAuthStateChange: an event without a session (handleLogout).
SignedOut(c) ==
    /\ app[c].session
    /\ app' = [app EXCEPT ![c].session = FALSE, ![c].projects = <<>>,
                          ![c].isPro = FALSE, ![c].appState = "HOME"]
    /\ UNCHANGED <<roadmap, call, rows, applied, awaiting, events>>

\* loadProjects after the await: setProjects(data).
LoadDone(c) ==
    /\ Fetch(c) \in awaiting
    /\ awaiting' = awaiting \ {Fetch(c)}
    /\ app' = [app EXCEPT ![c].projects = fetchRoadmaps(rows)]
    /\ UNCHANGED <<roadmap, call, rows, applied, events>>

\* loadProjects, the catch branch.
LoadFail(c, message) ==
    /\ Fetch(c) \in awaiting
    /\ awaiting' = awaiting \ {Fetch(c)}
    /\ app' = [app EXCEPT ![c].errorMessage = message, ![c].appState = "ERROR"]
    /\ UNCHANGED <<roadmap, call, rows, applied, events>>

\* onRefreshProjects of UserProfile: loadProjects up to the await.
RefreshProjects(c) ==
    /\ ShowsProfile(c)
    /\ awaiting' = awaiting \cup {Fetch(c)}
    /\ UNCHANGED <<roadmap, call, app, rows, applied, events>>

\* "Start for Free" of the home page.
StartForFree(c) ==
    /\ ShowsHome(c)
    /\ app' = [app EXCEPT ![c].appState = "AUTH"]
    /\ UNCHANGED <<roadmap, call, rows, applied, awaiting, events>>

\* onCancel of Auth.  (onSuccess goes with the sign-in event: SignedIn.)
AuthCancel(c) ==
    /\ app[c].appState = "AUTH"
    /\ app' = [app EXCEPT ![c].appState = "HOME"]
    /\ UNCHANGED <<roadmap, call, rows, applied, awaiting, events>>

\* App.handleStartProject, the onStartProject of UserProfile.
handleStartProject(c) ==
    /\ ShowsProfile(c)
    /\ app' = IF ~app[c].session
              THEN [app EXCEPT ![c].appState = "AUTH"]
              ELSE IF ~app[c].isPro /\ Len(app[c].projects) >= MAX_FREE_PROJECTS
              THEN [app EXCEPT ![c].showLimitDialog = TRUE]
              ELSE [app EXCEPT ![c].appState = "UPLOAD"]
    /\ UNCHANGED <<roadmap, call, rows, applied, awaiting, events>>

\* "Cancel" of the limit dialog.
CloseLimitDialog(c) ==
    /\ ShowsProfile(c)
    /\ app[c].showLimitDialog
    /\ app' = [app EXCEPT ![c].showLimitDialog = FALSE]
    /\ UNCHANGED <<roadmap, call, rows, applied, awaiting, events>>

\* onOpenProject of UserProfile, onSwitchProject of Dashboard.
OpenProject(c, id) ==
    /\ ShowsProfile(c) \/ ShowsDashboard(c)
    /\ HasProject(app[c].projects, id)
    /\ app' = [app EXCEPT ![c].activeProjectId = id, ![c].appState = "DASHBOARD"]
    /\ UNCHANGED <<roadmap, call, rows, applied, awaiting, events>>

\* The back buttons of the upload page, of Dashboard and of the error page.
GoBack(c) ==
    /\ \/ app[c].appState \in {"UPLOAD", "ERROR"}
       \/ ShowsDashboard(c)
    /\ app' = [app EXCEPT ![c].appState = "PROFILE"]
    /\ UNCHANGED <<roadmap, call, rows, applied, awaiting, events>>

Create(c) == [client |-> c, op |-> "create"]

\* App.handleContentSubmit up to the first await.
handleContentSubmit(c) ==
    /\ app[c].appState = "UPLOAD"
    /\ Cardinality(DOMAIN rows) < MaxProjects
    /\ IF ~app[c].session
       THEN /\ app' = [app EXCEPT ![c].appState = "AUTH"]
            /\ UNCHANGED awaiting
       ELSE /\ app' = [app EXCEPT ![c].appState = "PROCESSING",
                                  ![c].errorMessage = Null]
            /\ awaiting' = awaiting \cup {Create(c)}
    /\ UNCHANGED <<roadmap, call, rows, applied, events>>

\* handleContentSubmit after generateRoadmap and createRoadmap: the row is
\* inserted and the project heads the list.
CreateDone(c) ==
    /\ Create(c) \in awaiting
    /\ awaiting' = awaiting \ {Create(c)}
    /\ rows' = [id \in DOMAIN rows \cup {ProjectId(Cardinality(DOMAIN rows) + 1)} |->
                  IF id \in DOMAIN rows THEN rows[id] ELSE NewProject(id, <<1>>)]
    /\ app' = [app EXCEPT
                 ![c].projects =
                     <<NewProject(ProjectId(Cardinality(DOMAIN rows) + 1), <<1>>)>> \o @,
                 ![c].activeProjectId = ProjectId(Cardinality(DOMAIN rows) + 1),
                 ![c].appState = "DASHBOARD"]
    /\ UNCHANGED <<roadmap, call, applied, events>>

\* handleContentSubmit, the catch branch.
CreateFail(c) ==
    /\ Create(c) \in awaiting
    /\ awaiting' = awaiting \ {Create(c)}
    /\ app' = [app EXCEPT ![c].errorMessage = AnalyzeError,
                          ![c].appState = "ERROR"]
    /\ UNCHANGED <<roadmap, call, rows, applied, events>>

\* App.handleRetry, the "Try Again" of the error page.  With a database
\* message the page is reloaded: App mounts anew and its mount effect finds
\* the session (the model reloads once the page awaits nothing).
handleRetry(c) ==
    /\ app[c].appState = "ERROR"
    /\ IF app[c].errorMessage # Null /\ IncludesDatabase(app[c].errorMessage)
       THEN /\ \A a \in awaiting : a.client # c
            /\ app' = [app EXCEPT ![c] =
                         IF app[c].session
                         THEN [InitialApp EXCEPT !.session = TRUE,
                                                 !.appState = "PROFILE"]
                         ELSE InitialApp]
            /\ awaiting' = IF app[c].session THEN awaiting \cup {Fetch(c)}
                           ELSE awaiting
       ELSE /\ app' = [app EXCEPT ![c].appState = "UPLOAD",
                                  ![c].errorMessage = Null]
            /\ UNCHANGED awaiting
    /\ UNCHANGED <<roadmap, call, rows, applied, events>>

\* prev.map(p => p.id === updatedRoadmap.id ? updatedRoadmap : p)
ReplaceProject(list, updatedRoadmap) ==
    [k \in DOMAIN list |->
       IF list[k].id = updatedRoadmap.id THEN updatedRoadmap ELSE list[k]]

Update(c, updatedRoadmap) ==
    [client |-> c, op |-> "update", roadmap |-> updatedRoadmap]

\* App.handleUpdateRoadmap up to the await: the onUpdateRoadmap of Dashboard.
handleUpdateRoadmap(c, updatedRoadmap) ==
    /\ app' = [app EXCEPT ![c].projects = ReplaceProject(@, updatedRoadmap)]
    /\ awaiting' = awaiting \cup {Update(c, updatedRoadmap)}

\* A row that keeps the stored completions of tasks: a merge.
updatedRowMerging(row, updatedRoadmap) ==
    [row EXCEPT
       !.title = updatedRoadmap.title,
       !.modules =
          [i \in DOMAIN updatedRoadmap.modules |->
             [updatedRoadmap.modules[i] EXCEPT !.tasks =
                [j \in DOMAIN updatedRoadmap.modules[i].tasks |->
                   IF i \in DOMAIN row.modules
                      /\ j \in DOMAIN row.modules[i].tasks
                      /\ row.modules[i].tasks[j].isCompleted
                   THEN row.modules[i].tasks[j]
                   ELSE updatedRoadmap.modules[i].tasks[j]]]],
       !.totalTimeEstimate = updatedRoadmap.totalTimeEstimate]

\* roadmapService.updateRoadmap: .update({ title, description, modules,
\* total_time_estimate }) of the row.
updatedRow(row, updatedRoadmap) ==
    [row EXCEPT !.title = updatedRoadmap.title,
                !.modules = updatedRoadmap.modules,
                !.totalTimeEstimate = updatedRoadmap.totalTimeEstimate]

\* The Dashboard of c is subscribed to the UPDATE events of the row id.
Subscribed(c, id) == ShowsDashboard(c) /\ app[c].activeProjectId = id

\* The update reaches the table: the row with the id, if there is one, is
\* replaced and every subscribed Dashboard is sent the new row.
UpdateDone(a) ==
    /\ a.op = "update"
    /\ awaiting' = awaiting \ {a}
    /\ IF a.roadmap.id \in DOMAIN rows /\ rows[a.roadmap.id] # NoRow
       THEN /\ rows' = [rows EXCEPT ![a.roadmap.id] = updatedRow(@, a.roadmap)]
            /\ applied' = Append(applied, a)
            /\ events' = events \cup
                  { [to |-> c, new |-> rows'[a.roadmap.id]] :
                       c \in { d \in DOMAIN app : Subscribed(d, a.roadmap.id) } }
       ELSE UNCHANGED <<rows, applied, events>>
    /\ UNCHANGED <<roadmap, call, app>>

\* updateRoadmap throws: handleUpdateRoadmap logs the error.
UpdateFail(a) ==
    /\ a.op = "update"
    /\ awaiting' = awaiting \ {a}
    /\ UNCHANGED <<roadmap, call, app, rows, applied, events>>

Delete(c, id, previousProjects) ==
    [client |-> c, op |-> "delete", id |-> id,
     previousProjects |-> previousProjects]

\* App.handleDeleteProject up to the await (the confirm dialog accepted).
handleDeleteProject(c, id) ==
    /\ \/ ShowsProfile(c) /\ HasProject(app[c].projects, id)
       \/ ShowsDashboard(c) /\ app[c].activeProjectId = id
    /\ app' = [app EXCEPT
                 ![c].projects = WithoutProject(@, id),
                 ![c].appState = IF @ = "DASHBOARD" THEN "PROFILE" ELSE @,
                 ![c].activeProjectId =
                     IF app[c].appState = "DASHBOARD" THEN Null ELSE @]
    /\ awaiting' = awaiting \cup {Delete(c, id, app[c].projects)}
    /\ UNCHANGED <<roadmap, call, rows, applied, events>>

\* deleteRoadmap succeeds: the row is gone.
DeleteDone(a) ==
    /\ a.op = "delete"
    /\ awaiting' = awaiting \ {a}
    /\ rows' = [rows EXCEPT ![a.id] = NoRow]
    /\ UNCHANGED <<roadmap, call, app, applied, events>>

\* handleDeleteProject, the catch branch: setProjects(previousProjects).
DeleteFail(a) ==
    /\ a.op = "delete"
    /\ awaiting' = awaiting \ {a}
    /\ app' = [app EXCEPT ![a.client].projects = a.previousProjects]
    /\ UNCHANGED <<roadmap, call, rows, applied, events>>

(***************************************************************************)
(* AppSpec: one browser session of a free account that has three or four   *)
(* projects in the table.  App mounts on the home page and the user signs  *)
(* in, starts, submits and opens projects; requests succeed or fail.       *)
(***************************************************************************)
Table(n) ==
    [id \in { ProjectId(k) : k \in 1 .. n } |-> NewProject(id, <<1>>)]

AppInit ==
    /\ roadmap = NewProject(ProjectId(1), <<1>>)
    /\ call = NoCall
    /\ app = [c \in {"a"} |-> InitialApp]
    /\ \E n \in {MAX_FREE_PROJECTS - 1, MAX_FREE_PROJECTS} : rows = Table(n)
    /\ applied = <<>>
    /\ awaiting = {}
    /\ events = {}

AppNext ==
    \/ \E c \in DOMAIN app : SignedIn(c)
    \/ \E c \in DOMAIN app : SignedOut(c)
    \/ \E c \in DOMAIN app : RefreshProjects(c)
    \/ \E c \in DOMAIN app : LoadDone(c)
    \/ \E c \in DOMAIN app :
          \E message \in {DatabaseError, LoadError} : LoadFail(c, message)
    \/ \E c \in DOMAIN app : StartForFree(c)
    \/ \E c \in DOMAIN app : AuthCancel(c)
    \/ \E c \in DOMAIN app : handleStartProject(c)
    \/ \E c \in DOMAIN app : CloseLimitDialog(c)
    \/ \E c \in DOMAIN app : \E id \in DOMAIN rows : OpenProject(c, id)
    \/ \E c \in DOMAIN app : GoBack(c)
    \/ \E c \in DOMAIN app : handleContentSubmit(c)
    \/ \E c \in DOMAIN app : CreateDone(c)
    \/ \E c \in DOMAIN app : CreateFail(c)
    \/ \E c \in DOMAIN app : handleRetry(c)

AppSpec == AppInit /\ [][AppNext]_vars

\* C28: a session that is not Pro and has MAX_FREE_PROJECTS or more
\* projects is never in the UPLOAD or PROCESSING state and never has more
\* than MAX_FREE_PROJECTS projects.
C28_FreeLimitNeverPassed ==
    \A c \in DOMAIN app :
       (app[c].session /\ ~app[c].isPro
        /\ Len(app[c].projects) >= MAX_FREE_PROJECTS) =>
          /\ app[c].appState \notin {"UPLOAD", "PROCESSING"}
          /\ Len(app[c].projects) = MAX_FREE_PROJECTS

(***************************************************************************)
(* The Dashboard inside App: its handlers hand the new roadmap to          *)
(* onUpdateRoadmap, which is App.handleUpdateRoadmap, and so does the      *)
(* handler of its real-time subscription.                                  *)
(***************************************************************************)
\* Updates of the table are followed up to MaxWrites of them.
MaxWrites == 2

\* The updates issued and not yet failed.
Writes == Len(applied) + Cardinality({ a \in awaiting : a.op = "update" })

\* activeRoadmap of App, the roadmap prop of the Dashboard.
activeRoadmap(c) ==
    app[c].projects[CHOOSE k \in DOMAIN app[c].projects :
                       app[c].projects[k].id = app[c].activeProjectId]

\* The checkbox of a task of the Dashboard: updateTask, then onUpdateRoadmap.
ToggleInDashboard(c) ==
    /\ ShowsDashboard(c)
    /\ Writes < MaxWrites
    /\ \E i \in DOMAIN activeRoadmap(c).modules :
          \E task \in Range(activeRoadmap(c).modules[i].tasks) :
             handleUpdateRoadmap(c,
                updateTask(activeRoadmap(c), activeRoadmap(c).modules[i].id,
                           task.id, ~task.isCompleted))
    /\ UNCHANGED <<roadmap, call, rows, applied, events>>

\* The postgres_changes handler of the Dashboard: the new row is mapped to
\* a Roadmap and handed to onUpdateRoadmap.  An event for a Dashboard that
\* has removed its channel is not delivered.
ReceiveEvent(e) ==
    /\ events' = events \ {e}
    /\ IF Subscribed(e.to, e.new.id)
       THEN /\ Writes < MaxWrites
            /\ handleUpdateRoadmap(e.to, e.new)
       ELSE UNCHANGED <<app, awaiting>>
    /\ UNCHANGED <<roadmap, call, rows, applied>>

(***************************************************************************)
(* DelSpec: a signed-in session on the profile page with two projects      *)
(* loaded.  The user deletes projects, opens one and completes tasks in    *)
(* it while a delete is in flight (one delete at a time); deletes and      *)
(* updates succeed or fail.                                                *)
(***************************************************************************)
DelInit ==
    /\ roadmap = NewProject(ProjectId(1), <<1>>)
    /\ call = NoCall
    /\ rows = Table(2)
    /\ app = [c \in {"a"} |->
                [InitialApp EXCEPT !.session = TRUE, !.appState = "PROFILE",
                                   !.projects = fetchRoadmaps(Table(2))]]
    /\ applied = <<>>
    /\ awaiting = {}
    /\ events = {}

DelNext ==
    \/ \E c \in DOMAIN app :
          \E id \in DOMAIN rows :
             /\ \A a \in awaiting : a.op # "delete"
             /\ handleDeleteProject(c, id)
    \/ \E a \in awaiting : DeleteDone(a)
    \/ \E a \in awaiting : DeleteFail(a)
    \/ \E c \in DOMAIN app : \E id \in DOMAIN rows : OpenProject(c, id)
    \/ \E c \in DOMAIN app : GoBack(c)
    \/ \E c \in DOMAIN app : ToggleInDashboard(c)
    \/ \E a \in awaiting : UpdateDone(a)
    \/ \E a \in awaiting : UpdateFail(a)
    \/ \E e \in events : ReceiveEvent(e)

DelSpec == DelInit /\ [][DelNext]_vars

\* C29: when deleting a project fails, the project list of the session
\* contains the project again and still contains every project it held
\* just before the failure, as it was then.
C29_FailedDeleteKeepsChanges ==
    [][\A a \in awaiting :
          DeleteFail(a) =>
             /\ HasProject(app'[a.client].projects, a.id)
             /\ \A p \in Range(app[a.client].projects) :
                   p \in Range(app'[a.client].projects)]_vars

(***************************************************************************)
(* SyncSpec: two sessions, each with the Dashboard open on the same        *)
(* project, a roadmap of two tasks.  Both tick tasks and one saves edit    *)
(* forms that change a start date; the updates reach the table in any     *)
(* order, and the table sends every update to the subscribed Dashboards.   *)
(***************************************************************************)
\* The project the sessions share.
SharedProject == NewProject(ProjectId(1), <<2>>)

SyncInit ==
    /\ roadmap = SharedProject
    /\ call = NoCall
    /\ rows = [id \in {SharedProject.id} |-> SharedProject]
    /\ app = [c \in {"a", "b"} |->
                [InitialApp EXCEPT !.session = TRUE, !.appState = "DASHBOARD",
                                   !.projects = <<SharedProject>>,
                                   !.activeProjectId = SharedProject.id]]
    /\ applied = <<>>
    /\ awaiting = {}
    /\ events = {}

\* Dashboard.handleSaveEdit inside App: the form is opened on a task, its
\* start date is set to a day, and the result goes to onUpdateRoadmap.
SaveEditInDashboard(c) ==
    /\ ShowsDashboard(c)
    /\ Writes < MaxWrites
    /\ \E i \in DOMAIN activeRoadmap(c).modules :
          \E opened \in Range(activeRoadmap(c).modules[i].tasks) :
             \E start \in { DateStr(d) : d \in Days } \ {opened.startDate} :
                handleUpdateRoadmap(c,
                   finalRoadmap(
                      rescheduleRoadmap(activeRoadmap(c),
                                        [opened EXCEPT !.startDate = start], start),
                      [moduleId |-> activeRoadmap(c).modules[i].id,
                       task |-> [opened EXCEPT !.startDate = start]]))
    /\ InWindow(activeRoadmap(c)')
    /\ UNCHANGED <<roadmap, call, rows, applied, events>>

SyncNext ==
    \/ \E c \in DOMAIN app : ToggleInDashboard(c)
    \/ SaveEditInDashboard("b")
    \/ \E a \in awaiting : UpdateDone(a)
    \/ \E e \in events : ReceiveEvent(e)

SyncSpec == SyncInit /\ [][SyncNext]_vars

\* The update the table took last.
LastApplied == applied[Len(applied)]

\* C21: the stored row has the modules and the totalTimeEstimate of the
\* update applied last, whatever the earlier updates changed (no merge),
\* and an update in flight can always be applied, whatever the row holds
\* (no conflict error).
C21_LastWriteWins ==
    /\ applied # <<>> =>
          /\ rows[LastApplied.roadmap.id].modules = LastApplied.roadmap.modules
          /\ rows[LastApplied.roadmap.id].totalTimeEstimate =
                LastApplied.roadmap.totalTimeEstimate
    /\ \A a \in awaiting : ENABLED UpdateDone(a)

\* Two sessions have each saved a change of the first snapshot, one the
\* completion of the first task, the other a new start date of the second,
\* which the table took last: the row has the new date and not the
\* completion.
C21_Witness ==
    /\ Len(applied) = 2
    /\ applied[1].client # applied[2].client
    /\ allTasks(applied[1].roadmap)[1].isCompleted
    /\ allTasks(applied[1].roadmap)[2] = allTasks(SharedProject)[2]
    /\ allTasks(applied[2].roadmap)[2].startDate # allTasks(SharedProject)[2].startDate
    /\ ~allTasks(applied[2].roadmap)[1].isCompleted
    /\ ~allTasks(rows[SharedProject.id])[1].isCompleted
    /\ allTasks(rows[SharedProject.id])[2].startDate
          = allTasks(applied[2].roadmap)[2].startDate

(***************************************************************************)
(* EchoSpec: the two sessions of SyncSpec, and one local edit: a session   *)
(* edits while no update has been issued (or the one issued has failed),   *)
(* and after that no user does anything.                                   *)
(***************************************************************************)
EchoInit == SyncInit

\* The one local edit: a task is ticked or an edit form is saved.
EditOnce ==
    \E c \in DOMAIN app :
       /\ Writes = 0
       /\ ToggleInDashboard(c) \/ SaveEditInDashboard(c)

EchoNext ==
    \/ EditOnce
    \/ \E a \in awaiting : UpdateDone(a)
    \/ \E a \in awaiting : UpdateFail(a)
    \/ \E e \in events : ReceiveEvent(e)

EchoSpec == EchoInit /\ [][EchoNext]_vars

\* C25: after one local edit and no further user action the table takes
\* the update of that edit and no other: a snapshot received over the
\* real-time channel causes no update.
C25_OneEditOneWrite == Len(applied) <= 1

====
